---- MODULE Spec2Model ----
(***************************************************************************)
(* Verification model of the geometric solvers of lalboard.py:             *)
(*   rotate_to_height_matrix, the two-stage leveling of cluster_assembly   *)
(*   and thumb_assembly, find_tangent_intersection_on_circle and           *)
(*   retaining_ridge_design.                                               *)
(*                                                                         *)
(* Coordinates are exact.  A number is a + b*sqrt(r) with a, b rational    *)
(* and r a square-free natural number (r = 1 for a rational); the only     *)
(* irrational a call produces is the square root taken by the kernel when  *)
(* it intersects a circle with a plane or with another circle.  A length   *)
(* (a radius, a distance) is carried by its square.                        *)
(***************************************************************************)
EXTENDS Integers, Sequences, FiniteSets, TLC

VARIABLES
    \* rotate_to_height_matrix: its position, arguments and locals
    rth_pc, axis_point, axis_vector, target_point, height,
    distance2, target_axis_projection, intersections, destination, matrix

VARIABLES
    \* cluster_assembly / thumb_assembly: the position in the function, which
    \* of the two it is, the three magnets of the cluster group (mid x, mid y,
    \* min z), its named points, the ball magnets of the three supports and
    \* the two rotations
    asm_pc, assembly, left_hand, magnets, named_points, ball_magnets,
    first_rotation, second_rotation

VARIABLES
    \* find_tangent_intersection_on_circle: its position, arguments and locals
    ft_pc, circle, point, left_point_to_mid, midpoint, intersecting_circle, vertices

VARIABLES
    \* retaining_ridge_design: its position, arguments and the two lists
    rr_pc, pressed_key_angle, length, lines, points

VARIABLES
    \* retaining_ridge_design: the point and the four vectors its helpers
    \* are given
    origin, up, right, down, left

VARIABLES
    \* screw_support_assembly: its position, arguments, the three parts it
    \* places (the z they span and the angle they are turned by about z) and
    \* the pitch
    ssa_pc, screw_length, base_length, screw_height, screw, screw_base, nut, pitch

VARIABLES
    \* cluster_assembly, lines 1270-1286: the position, the cutouts
    \* find_children gave, the two it names and the two magnets it places
    bmc_pc, back_magnet_cutouts, back_left_magnet_cutout, back_right_magnet_cutout,
    back_left_magnet, back_right_magnet

VARIABLES
    \* vertical_large_thin_magnet_cutout: its position, arguments, the two
    \* parts and what it returns
    mc_pc, depth, taper, upper_taper, base, magnet_cutout

VARIABLES
    \* central_pcb_sketch / key_breakout_pcb_sketch: the position, which of
    \* the two it is, the edges of the bottom face, the place of the loop in
    \* them, the pads and the face split by them
    pcb_pc, sketch_func, edges, edge, rects, split_face

VARIABLES
    \* run_design: its position
    rd_pc

VARIABLES
    \* what an earlier call of the function that runs gave, where it is
    \* called a second time with the same arguments
    earlier

rthVars == <<rth_pc, axis_point, axis_vector, target_point, height,
             distance2, target_axis_projection, intersections, destination, matrix>>

asmVars == <<asm_pc, assembly, left_hand, magnets, named_points, ball_magnets,
             first_rotation, second_rotation>>

ftVars == <<ft_pc, circle, point, left_point_to_mid, midpoint, intersecting_circle, vertices>>

rrFrame == <<origin, up, right, down, left>>

rrVars == <<rr_pc, pressed_key_angle, length, lines, points, rrFrame>>

ssaVars == <<ssa_pc, screw_length, base_length, screw_height, screw, screw_base, nut, pitch>>

bmcVars == <<bmc_pc, back_magnet_cutouts, back_left_magnet_cutout, back_right_magnet_cutout,
             back_left_magnet, back_right_magnet>>

mcVars == <<mc_pc, depth, taper, upper_taper, base, magnet_cutout>>

pcbVars == <<pcb_pc, sketch_func, edges, edge, rects, split_face>>

\* the functions that build one part
partVars == <<bmcVars, mcVars, pcbVars>>

\* the functions that are not running
\* what the functions modelled step by step leave alone
restVars == <<rd_pc, earlier, partVars>>

otherVars == <<ftVars, rrVars, ssaVars, restVars>>

\* what find_tangent_intersection_on_circle leaves alone
notFt == <<rthVars, asmVars, rrVars, ssaVars, restVars>>

\* what retaining_ridge_design leaves alone
notRr == <<rthVars, asmVars, ftVars, ssaVars, restVars>>

\* what screw_support_assembly leaves alone
notSsa == <<rthVars, asmVars, ftVars, rrVars, restVars>>

\* what rotate_to_height_matrix leaves alone
notRth == <<asmVars, otherVars>>

vars == <<rthVars, asmVars, ftVars, rrVars, ssaVars, restVars>>

(***************************************************************************)
(* Numbers.  [n, s, d, r] is (n + s*sqrt(r)) / d with integers n, s, d > 0 *)
(* of greatest common divisor 1 and r square-free (r = 1, s = 0 for a      *)
(* rational).  Two numbers that meet in an operation have one radicand,    *)
(* or one of them is rational.                                             *)
(***************************************************************************)
\* The one element of a singleton.  An operator that uses an argument more
\* than once binds it as Value({body : x \in {x0}}): it is evaluated once.
Value(S) == CHOOSE w \in S : TRUE

Abs(i0) == Value({IF i < 0 THEN 0 - i ELSE i : i \in {i0}})

RECURSIVE GCD(_, _)
GCD(i0, j0) == Value({IF j = 0 THEN i ELSE GCD(j, i % j) : i \in {i0}, j \in {j0}})

GCD3(i, j, k) == GCD(GCD(Abs(i), Abs(j)), Abs(k))

\* n, s and d divided by g > 0
Scaled(n, s, d, r, g0) ==
    Value({[n |-> n \div g, s |-> s \div g, d |-> d \div g, r |-> r] : g \in {g0}})

\* (n + s sqrt r) / d in lowest terms, d # 0
Norm(n0, s0, d0, r0) ==
    Value({Scaled(n, s, d, IF s = 0 THEN 1 ELSE r, GCD3(n, s, d))
           : n \in {(IF d0 < 0 THEN -1 ELSE 1) * (IF r0 = 1 THEN n0 + s0 ELSE n0)},
             s \in {(IF d0 < 0 THEN -1 ELSE 1) * (IF r0 = 1 THEN 0 ELSE s0)},
             d \in {Abs(d0)},
             r \in {r0}})

NRat(n, d) == Norm(n, 0, d, 1)

NInt(i) == [n |-> i, s |-> 0, d |-> 1, r |-> 1]

NZero == NInt(0)

NOne == NInt(1)

NIsRational(x) == x.r = 1

Radicand(x, y) == IF x.r = 1 THEN y.r ELSE x.r

NAddOver(x, y, g0) ==
    Value({Norm(x.n * (y.d \div g) + y.n * (x.d \div g),
                x.s * (y.d \div g) + y.s * (x.d \div g),
                (x.d \div g) * y.d,
                Radicand(x, y))
           : g \in {g0}})

NAdd(x0, y0) == Value({NAddOver(x, y, GCD(x.d, y.d)) : x \in {x0}, y \in {y0}})

NNeg(x0) == Value({[n |-> 0 - x.n, s |-> 0 - x.s, d |-> x.d, r |-> x.r] : x \in {x0}})

NSub(x, y) == NAdd(x, NNeg(y))

\* the product, g1 cancelled between x's numerator and y's denominator and
\* g2 between y's numerator and x's denominator
NMulOver(x, y, g10, g20) ==
    Value({Norm((x.n \div g1) * (y.n \div g2) + (x.s \div g1) * (y.s \div g2) * rr,
                (x.n \div g1) * (y.s \div g2) + (x.s \div g1) * (y.n \div g2),
                (x.d \div g2) * (y.d \div g1),
                rr)
           : g1 \in {g10}, g2 \in {g20}, rr \in {Radicand(x, y)}})

NMul(x0, y0) ==
    Value({NMulOver(x, y, GCD3(x.n, x.s, y.d), GCD3(y.n, y.s, x.d))
           : x \in {x0}, y \in {y0}})

\* 1 / x = d (n - s sqrt r) / (n^2 - r s^2), x # 0, with g the greatest
\* common divisor of n and s taken out first
NInvOver(x, g0) ==
    Value({Norm(x.d * (x.n \div g), 0 - x.d * (x.s \div g),
                g * ((x.n \div g) * (x.n \div g) - x.r * (x.s \div g) * (x.s \div g)),
                x.r)
           : g \in {g0}})

NInv(x0) == Value({NInvOver(x, GCD(Abs(x.n), Abs(x.s))) : x \in {x0}})

NDiv(x, y) == NMul(x, NInv(y))

Sign(i0) == Value({IF i > 0 THEN 1 ELSE IF i < 0 THEN -1 ELSE 0 : i \in {i0}})

\* the sign of a/b - c/d for naturals a, c and positive b, d, by continued
\* fractions (no product is formed)
RECURSIVE FracCmp(_, _, _, _)
FracCmp(a0, b0, c0, d0) ==
    Value({IF a \div b # c \div d THEN Sign(a \div b - c \div d)
           ELSE IF a % b = 0 /\ c % d = 0 THEN 0
           ELSE IF a % b = 0 THEN -1
           ELSE IF c % d = 0 THEN 1
           ELSE FracCmp(d, c % d, b, a % b)
           : a \in {a0}, b \in {b0}, c \in {c0}, d \in {d0}})

\* the sign of n + s sqrt r: that of the term of larger magnitude,
\* n^2 against r s^2 being |n| / |s| against r |s| / |n|
NSign(x0) ==
    Value({IF x.s = 0 \/ Sign(x.n) = Sign(x.s) THEN Sign(x.n)
           ELSE IF x.n = 0 THEN Sign(x.s)
           ELSE Sign(x.n) * FracCmp(Abs(x.n), Abs(x.s), x.r * Abs(x.s), Abs(x.n))
           : x \in {x0}})

\* the sign of x - y; of two rationals without forming the difference
NCmp(x0, y0) ==
    Value({IF x.s = 0 /\ y.s = 0 THEN FracCmp(x.n, x.d, y.n, y.d)
           ELSE NSign(NSub(x, y))
           : x \in {x0}, y \in {y0}})

NLess(x, y) == NCmp(x, y) < 0

\* the integer square root of m >= 1, by Newton's iteration from x
RECURSIVE IsqrtFrom(_, _)
IsqrtFrom(m0, x0) ==
    Value({IF (x + m \div x) \div 2 >= x THEN x ELSE IsqrtFrom(m, (x + m \div x) \div 2)
           : m \in {m0}, x \in {x0}})

\* sq times the largest k with k*k dividing m (m >= 1), the primes below k
\* being divided out of m already: once k^3 > m, what is left of m is 1, a
\* prime, the square of a prime or a product of two primes
RECURSIVE SquarePartFrom(_, _, _)
SquarePartFrom(m0, k0, sq0) ==
    Value({IF k * k * k > m
           THEN (IF IsqrtFrom(m, m) * IsqrtFrom(m, m) = m THEN sq * IsqrtFrom(m, m) ELSE sq)
           ELSE IF m % (k * k) = 0 THEN SquarePartFrom(m \div (k * k), k, sq * k)
           ELSE IF m % k = 0 THEN SquarePartFrom(m \div k, k + 1, sq)
           ELSE SquarePartFrom(m, k + 1, sq)
           : m \in {m0}, k \in {k0}, sq \in {sq0}})

SquarePart(i) == SquarePartFrom(i, 2, 1)

NSqrtOver(x, k0) ==
    Value({Norm(0, k, x.d, (x.n * x.d) \div (k * k)) : k \in {k0}})

\* sqrt(x) for a rational x >= 0: sqrt(n / d) = sqrt(n d) / d, n and d
\* having no common divisor
NSqrt(x0) ==
    Value({IF x.n = 0 THEN NZero ELSE NSqrtOver(x, SquarePart(x.n) * SquarePart(x.d))
           : x \in {x0}})

(***************************************************************************)
(* adsk.core Vector3D / Point3D: triples of numbers.                       *)
(***************************************************************************)
Vec(x, y, z) == <<NInt(x), NInt(y), NInt(z)>>

VAdd(u0, v0) ==
    Value({<<NAdd(u[1], v[1]), NAdd(u[2], v[2]), NAdd(u[3], v[3])>>
           : u \in {u0}, v \in {v0}})

VSub(u0, v0) ==
    Value({<<NSub(u[1], v[1]), NSub(u[2], v[2]), NSub(u[3], v[3])>>
           : u \in {u0}, v \in {v0}})

VScale(k0, v0) ==
    Value({<<NMul(k, v[1]), NMul(k, v[2]), NMul(k, v[3])>> : k \in {k0}, v \in {v0}})

Dot(u0, v0) ==
    Value({NAdd(NAdd(NMul(u[1], v[1]), NMul(u[2], v[2])), NMul(u[3], v[3]))
           : u \in {u0}, v \in {v0}})

\* one coordinate of the cross product
Minor(u, v, i, j) == NSub(NMul(u[i], v[j]), NMul(u[j], v[i]))

Cross(u0, v0) ==
    Value({<<Minor(u, v, 2, 3), Minor(u, v, 3, 1), Minor(u, v, 1, 2)>>
           : u \in {u0}, v \in {v0}})

\* Point3D.vectorTo: the vector from p to q
vectorTo(p, q) == VSub(q, p)

VIsRational(v) == \A i \in 1..3 : NIsRational(v[i])

(***************************************************************************)
(* adsk.core Matrix3D: a linear part (rows) and an offset; the transform   *)
(* takes p to lin p + off.                                                 *)
(***************************************************************************)
Matrix3D_create == [lin |-> <<Vec(1, 0, 0), Vec(0, 1, 0), Vec(0, 0, 1)>>, off |-> Vec(0, 0, 0)]

MatVec(lin0, v0) ==
    Value({<<Dot(lin[1], v), Dot(lin[2], v), Dot(lin[3], v)>> : lin \in {lin0}, v \in {v0}})

Column(lin, j) == <<lin[1][j], lin[2][j], lin[3][j]>>

Transpose(lin0) == Value({<<Column(lin, 1), Column(lin, 2), Column(lin, 3)>> : lin \in {lin0}})

\* the rows of l2 against the columns of l1 (the rows of its transpose)
MatMatT(l2, t1) == <<MatVec(t1, l2[1]), MatVec(t1, l2[2]), MatVec(t1, l2[3])>>

MatMat(l20, l10) == Value({MatMatT(l2, t1) : l2 \in {l20}, t1 \in {Transpose(l10)}})

TransformPoint(m0, p0) == Value({VAdd(MatVec(m.lin, p), m.off) : m \in {m0}, p \in {p0}})

\* this.transformBy(other): this, followed by other
transformBy(this0, other0) ==
    Value({[lin |-> MatMat(other.lin, this.lin),
            off |-> VAdd(MatVec(other.lin, this.off), other.off)]
           : this \in {this0}, other \in {other0}})

\* the matrix whose translation is v
Translation(v) == [lin |-> Matrix3D_create.lin, off |-> v]

\* Matrix3D.invert, of a rigid motion: the transpose, and the offset taken back
invert(m0) ==
    Value({[lin |-> Transpose(m.lin),
            off |-> VScale(NInt(-1), MatVec(Transpose(m.lin), m.off))]
           : m \in {m0}})

\* the entry (i, j) of the matrix of k x .
CrossEntry(k, i, j) ==
    IF i = j THEN NZero
    ELSE IF (j - i) % 3 = 1 THEN NNeg(k[6 - i - j])
    ELSE k[6 - i - j]

\* the entry (i, j) of  c I + [k x] + k k^T inv
TurnEntry(c, k, inv, i, j) ==
    NAdd(NAdd(IF i = j THEN c ELSE NZero, CrossEntry(k, i, j)),
         NMul(NMul(k[i], k[j]), inv))

Turn(c0, k0, inv0) ==
    Value({[lin |-> <<<<TurnEntry(c, k, inv, 1, 1), TurnEntry(c, k, inv, 1, 2), TurnEntry(c, k, inv, 1, 3)>>,
                      <<TurnEntry(c, k, inv, 2, 1), TurnEntry(c, k, inv, 2, 2), TurnEntry(c, k, inv, 2, 3)>>,
                      <<TurnEntry(c, k, inv, 3, 1), TurnEntry(c, k, inv, 3, 2), TurnEntry(c, k, inv, 3, 3)>>>>,
            off |-> Vec(0, 0, 0)]
           : c \in {c0}, k \in {k0}, inv \in {inv0}})

\* a vector perpendicular to v # 0
Perpendicular(v0) ==
    Value({IF NSign(v[1]) # 0 \/ NSign(v[2]) # 0
           THEN <<NNeg(v[2]), v[1], NZero>>
           ELSE <<NZero, NNeg(v[3]), v[2]>>
           : v \in {v0}})

\* the entry (i, j) of  2 p p^T / p.p - I
HalfTurnEntry(p, inv, i, j) ==
    NSub(NMul(NMul(NInt(2), NMul(p[i], p[j])), inv), IF i = j THEN NOne ELSE NZero)

\* the turn by 180 degrees about p
HalfTurn(p0) ==
    Value({[lin |-> <<<<HalfTurnEntry(p, inv, 1, 1), HalfTurnEntry(p, inv, 1, 2), HalfTurnEntry(p, inv, 1, 3)>>,
                      <<HalfTurnEntry(p, inv, 2, 1), HalfTurnEntry(p, inv, 2, 2), HalfTurnEntry(p, inv, 2, 3)>>,
                      <<HalfTurnEntry(p, inv, 3, 1), HalfTurnEntry(p, inv, 3, 2), HalfTurnEntry(p, inv, 3, 3)>>>>,
            off |-> Vec(0, 0, 0)]
           : p \in {p0}, inv \in {NInv(Dot(p0, p0))}})

\* the rotation from the cosine c # -1 and the scaled axis k
TurnAbout(c0, k) == Value({Turn(c, k, NInv(NAdd(NOne, c))) : c \in {c0}})

RotateOver(from, to, ll0, cc0) ==
    Value({IF NSign(NAdd(ll, cc)) = 0
           THEN HalfTurn(Perpendicular(from))
           ELSE TurnAbout(NDiv(cc, ll), VScale(NInv(ll), Cross(from, to)))
           : ll \in {ll0}, cc \in {cc0}})

\* Matrix3D.setToRotateTo(from, to): the rotation about the origin that turns
\* from onto to, about the axis from x to.  Both are vectors of one length
\* (radii of one circle), so |from||to| = from.from and
\*   R = c I + [k x] + k k^T / (1 + c),   c = from.to / from.from,
\*                                        k = (from x to) / from.from.
\* For opposite vectors the kernel turns by 180 degrees about an axis
\* perpendicular to from.
setToRotateTo(from0, to0) ==
    Value({RotateOver(from, to, Dot(from, from), Dot(from, to))
           : from \in {from0}, to \in {to0}})

(***************************************************************************)
(* The measurement and intersection services of the kernel.                *)
(***************************************************************************)
InfiniteLine3D_create(org, dir) == [origin |-> org, direction |-> dir]

DistanceFrom(from, foot0) ==
    Value({[value2 |-> Dot(vectorTo(foot, from), vectorTo(foot, from)),
            positionOne |-> foot]
           : foot \in {foot0}})

\* measureManager.measureMinimumDistance(point, line): the (squared) distance
\* and the point of the line nearest to the point
measureMinimumDistance(point0, line0) ==
    Value({DistanceFrom(from,
               VAdd(line.origin,
                    VScale(NDiv(Dot(vectorTo(line.origin, from), line.direction),
                                Dot(line.direction, line.direction)),
                           line.direction)))
           : from \in {point0}, line \in {line0}})

\* Circle(radius), turned so that its normal is the given vector and centred
\* on the given point
PlacedCircle(rad2, nrm, ctr) == [center |-> ctr, normal |-> nrm, radius2 |-> rad2]

Plane_create(org, nrm) == [origin |-> org, normal |-> nrm]

\* the two points mid +- step, in the one order or the other
PointPair(mid0, step0, order) ==
    Value({IF order = 1
           THEN <<VSub(mid, step), VAdd(mid, step)>>
           ELSE <<VAdd(mid, step), VSub(mid, step)>>
           : mid \in {mid0}, step \in {step0}})

\* the points mid +- sqrt(alpha2) u
PointsAbout(mid, u, alpha20, order) ==
    Value({IF NSign(alpha2) < 0 THEN <<>>
           ELSE IF NSign(alpha2) = 0 THEN <<mid>>
           ELSE PointPair(mid, VScale(NSqrt(alpha2), u), order)
           : alpha2 \in {alpha20}})

\* the points of the circle on the line  center + beta w + t u
PointsAlong(ci, u, w, uu, beta0, order) ==
    Value({PointsAbout(VAdd(ci.center, VScale(beta, w)), u,
                       NDiv(NSub(ci.radius2, NMul(NMul(beta, beta), Dot(w, w))), uu),
                       order)
           : beta \in {beta0}})

PointsOn(pl, ci, u, w0, uu0, order) ==
    Value({IF NSign(uu) = 0 THEN <<>>
           ELSE PointsAlong(ci, u, w, uu,
                            NDiv(Dot(pl.normal, vectorTo(ci.center, pl.origin)), uu),
                            order)
           : w \in {w0}, uu \in {uu0}})

PointsAcross(pl, ci, u0, order) ==
    Value({PointsOn(pl, ci, u, Cross(u, ci.normal), Dot(u, u), order) : u \in {u0}})

\* Plane.intersectWithCurve(circle): the 0, 1 or 2 points of the circle in the
\* plane.  With u = normal_c x normal_p along the line the two planes share
\* and w = u x normal_c, the points are
\*   center + beta w +- alpha u,   beta = normal_p.(origin_p - center) / u.u,
\*                                 alpha^2 = (radius^2 - beta^2 w.w) / u.u.
\* The kernel documents no order of the two points: order = 1 gives the
\* other one.
intersectWithCurve(pl0, ci0, order) ==
    Value({PointsAcross(pl, ci, Cross(ci.normal, pl.normal), order)
           : pl \in {pl0}, ci \in {ci0}})

\* measureManager.measureAngle(pointOne, centre, pointThree): an angle of
\* [0, 180] degrees, carried as cos = dot / sqrt(q)
measureAngle(pointOne, centre0, pointThree) ==
    Value({[dot |-> Dot(ea, eb), q |-> NMul(Dot(ea, ea), Dot(eb, eb))]
           : ea \in {vectorTo(centre0, pointOne)}, eb \in {vectorTo(centre0, pointThree)}})

\* cos^2, with the sign of cos
SignedCos2(m0) ==
    Value({[sign |-> NSign(m.dot), cos2 |-> NDiv(NMul(m.dot, m.dot), m.q)] : m \in {m0}})

CosLess(c20, c10) ==
    Value({IF c1.sign # c2.sign THEN c2.sign < c1.sign
           ELSE IF c1.sign >= 0 THEN NLess(c2.cos2, c1.cos2)
           ELSE NLess(c1.cos2, c2.cos2)
           : c1 \in {c10}, c2 \in {c20}})

\* angle m1 < angle m2, that is cos m1 > cos m2
AngleLess(m10, m20) ==
    Value({IF m1.q = m2.q THEN NLess(m2.dot, m1.dot)
           ELSE CosLess(SignedCos2(m2), SignedCos2(m1))
           : m1 \in {m10}, m2 \in {m20}})

(***************************************************************************)
(* rotate_to_height_matrix(axis_point, axis_vector, target_point, height)  *)
(***************************************************************************)
\* (the comparison turned round)
ChooseLargerAngle(first, second, points2) ==
    IF AngleLess(second, first)
    THEN points2[1]
    ELSE points2[2]

\* (the first one taken on a tie too)
ChooseFirstOnTie(first, second, points2) ==
    IF AngleLess(second, first)
    THEN points2[2]
    ELSE points2[1]

\* the destination among the two intersections: the first one only when its
\* angle is strictly the smaller
ChooseDestination(first, second, points2) ==
    IF AngleLess(first, second)
    THEN points2[1]
    ELSE points2[2]

\* (the pivot never translated back)
ComposeWithoutReturn(translation, rotation) ==
    transformBy(transformBy(Matrix3D_create, translation), rotation)

\* (the matrix of an earlier call used again, not created anew)
ComposeOntoEarlier(translation0, rotation) ==
    Value({transformBy(transformBy(transformBy(IF earlier = <<>> THEN Matrix3D_create
                                               ELSE earlier.returned,
                                               translation), rotation),
                       invert(translation))
           : translation \in {translation0}})

\* translate the pivot to the origin, rotate, translate back
ComposeAboutPivot(translation0, rotation) ==
    Value({transformBy(transformBy(transformBy(Matrix3D_create, translation), rotation),
                       invert(translation))
           : translation \in {translation0}})

\* the assertion on the number of intersections
IntersectionCountOk(found) == Len(found) = 2

\* (the circle never turned onto the axis direction)
PathCircleUnturned(dist2, vec, proj) == PlacedCircle(dist2, Vec(0, 0, 1), proj)

\* the circle target_point travels on: Circle(distance), turned onto the axis
\* direction and centred on the projection
PathCircle(dist2, vec, proj) == PlacedCircle(dist2, vec, proj)

\* (the plane left at z = 0)
HeightPlaneAtZero(h) == Plane_create(Vec(0, 0, 0), Vec(0, 0, 1))

\* (the plane stood upright, x = 0)
HeightPlaneUpright(h) == Plane_create(<<NZero, NZero, h>>, Vec(1, 0, 0))

\* the plane z = height
HeightPlane(h) == Plane_create(<<NZero, NZero, h>>, Vec(0, 0, 1))

\* the rotation about the origin that turns the projection-to-target vector
\* onto the projection-to-destination vector
RotationMatrix(proj, target, dest) ==
    setToRotateTo(vectorTo(proj, target), vectorTo(proj, dest))

\* translation_matrix: the translation by the projection, inverted
TranslationMatrix(proj) == invert(Translation(proj))

None == <<>>

\* axis = InfiniteLine3D.create(...); result = measureMinimumDistance(...)
RTH_Measure ==
    /\ rth_pc = "measure"
    /\ axis_vector # Vec(0, 0, 0)
    /\ LET result == measureMinimumDistance(
                         target_point, InfiniteLine3D_create(axis_point, axis_vector))
       IN  /\ distance2' = result.value2
           /\ target_axis_projection' = result.positionOne
    /\ rth_pc' = "intersect"
    /\ UNCHANGED <<notRth, axis_point, axis_vector, target_point, height,
                   intersections, destination, matrix>>

\* circle = Circle(distance) ... intersections = height_plane.intersectWithCurve(...)
RTH_Intersect ==
    /\ rth_pc = "intersect"
    /\ \E order \in {0, 1} :
           intersections' =
               intersectWithCurve(HeightPlane(height),
                                  PathCircle(distance2, axis_vector, target_axis_projection),
                                  order)
    /\ rth_pc' = "choose"
    /\ UNCHANGED <<notRth, axis_point, axis_vector, target_point, height,
                   distance2, target_axis_projection, destination, matrix>>

\* assert len(intersections) == 2, failing
RTH_AssertFails ==
    /\ rth_pc = "choose"
    /\ ~IntersectionCountOk(intersections)
    /\ rth_pc' = "AssertionError"
    /\ UNCHANGED <<notRth, axis_point, axis_vector, target_point, height,
                   distance2, target_axis_projection, intersections, destination, matrix>>

\* the two angle measurements and the choice of the destination
RTH_Choose ==
    /\ rth_pc = "choose"
    /\ IntersectionCountOk(intersections)
    /\ destination' =
           ChooseDestination(
               measureAngle(target_point, target_axis_projection, intersections[1]),
               measureAngle(target_point, target_axis_projection, intersections[2]),
               intersections)
    /\ rth_pc' = "compose"
    /\ UNCHANGED <<notRth, axis_point, axis_vector, target_point, height,
                   distance2, target_axis_projection, intersections, matrix>>

\* rotation_matrix, translation_matrix and the returned matrix
RTH_Compose ==
    /\ rth_pc = "compose"
    /\ matrix' = ComposeAboutPivot(
                     TranslationMatrix(target_axis_projection),
                     RotationMatrix(target_axis_projection, target_point, destination))
    /\ rth_pc' = "returned"
    /\ UNCHANGED <<notRth, axis_point, axis_vector, target_point, height,
                   distance2, target_axis_projection, intersections, destination>>

\* lines 2422 and 2427, the kernel raising: it makes no line of a direction
\* of length 0, and it may make no circle of radius 0 (where it makes one,
\* RTH_Intersect goes on with it)
RTH_KernelRefuses ==
    /\ \/ rth_pc = "measure" /\ axis_vector = Vec(0, 0, 0)
       \/ rth_pc = "intersect" /\ distance2 = NZero
    /\ rth_pc' = "RuntimeError"
    /\ UNCHANGED <<notRth, axis_point, axis_vector, target_point, height,
                   distance2, target_axis_projection, intersections, destination, matrix>>

rotate_to_height_matrix ==
    RTH_Measure \/ RTH_Intersect \/ RTH_AssertFails \/ RTH_Choose \/ RTH_Compose

(***************************************************************************)
(* Inputs of rotate_to_height_matrix taken alone.  The docstring assumes   *)
(* an axis that is not vertical and a target point off the axis.           *)
(***************************************************************************)
MaxCoord == 1

MaxHeight == 2

Coords == (0 - MaxCoord)..MaxCoord

IntPoints == {<<x, y, z>> \in Coords \X Coords \X Coords : TRUE}

AxisPoints == {<<0, 0, 0>>, <<1, -1, 1>>}

AxisVectors == {<<1, 0, 0>>, <<1, 1, 0>>, <<0, 2, -1>>, <<1, 2, 1>>}

IVec(t) == Vec(t[1], t[2], t[3])

IDot(s, t) == s[1] * t[1] + s[2] * t[2] + s[3] * t[3]

\* t lies on the line through p along v
OnAxis(p, v, t) ==
    LET e == <<t[1] - p[1], t[2] - p[2], t[3] - p[3]>>
    IN  IDot(e, v) * IDot(e, v) = IDot(e, e) * IDot(v, v)

\* the functions that are not called
RthIdle ==
    /\ rth_pc = "idle"
    /\ axis_point = None
    /\ axis_vector = None
    /\ target_point = None
    /\ height = None
    /\ distance2 = None
    /\ target_axis_projection = None
    /\ intersections = None
    /\ destination = None
    /\ matrix = None

AsmIdle ==
    /\ asm_pc = "none"
    /\ assembly = "none"
    /\ left_hand = FALSE
    /\ magnets = None
    /\ named_points = None
    /\ ball_magnets = None
    /\ first_rotation = None
    /\ second_rotation = None

TangentIdle ==
    /\ ft_pc = "none"
    /\ circle = None
    /\ point = None
    /\ left_point_to_mid = None
    /\ midpoint = None
    /\ intersecting_circle = None
    /\ vertices = None

RidgeIdle ==
    /\ rr_pc = "none"
    /\ pressed_key_angle = None
    /\ length = None
    /\ lines = None
    /\ points = None
    /\ origin = None
    /\ up = None
    /\ right = None
    /\ down = None
    /\ left = None

ScrewIdle ==
    /\ ssa_pc = "none"
    /\ screw_length = None
    /\ base_length = None
    /\ screw_height = None
    /\ screw = None
    /\ screw_base = None
    /\ nut = None
    /\ pitch = None

DesignIdle == rd_pc = "none"

BackMagnetsIdle ==
    /\ bmc_pc = "none"
    /\ back_magnet_cutouts = None
    /\ back_left_magnet_cutout = None
    /\ back_right_magnet_cutout = None
    /\ back_left_magnet = None
    /\ back_right_magnet = None

MagnetCutoutIdle ==
    /\ mc_pc = "none"
    /\ depth = None
    /\ taper = None
    /\ upper_taper = None
    /\ base = None
    /\ magnet_cutout = None

SketchIdle ==
    /\ pcb_pc = "none"
    /\ sketch_func = None
    /\ edges = None
    /\ edge = None
    /\ rects = None
    /\ split_face = None

PartsIdleBut(running) ==
    /\ running # "pcb_sketch" => SketchIdle
    /\ running # "back_magnets" => BackMagnetsIdle
    /\ running # "vertical_large_thin_magnet_cutout" => MagnetCutoutIdle

\* every function but the one that runs is idle
AllIdleBut(running) ==
    /\ running # "rotate_to_height_matrix" => RthIdle
    /\ running # "cluster_assembly" => AsmIdle
    /\ running # "find_tangent_intersection_on_circle" => TangentIdle
    /\ running # "retaining_ridge_design" => RidgeIdle
    /\ running # "screw_support_assembly" => ScrewIdle
    /\ running # "run_design" => DesignIdle
    /\ PartsIdleBut(running)
    /\ earlier = None

InitRotate ==
    /\ rth_pc = "measure"
    /\ \E p \in AxisPoints, v \in AxisVectors, t \in IntPoints :
           /\ ~OnAxis(p, v, t)
           /\ axis_point = IVec(p)
           /\ axis_vector = IVec(v)
           /\ target_point = IVec(t)
    /\ \E h \in (0 - MaxHeight)..MaxHeight : height = NInt(h)
    /\ distance2 = None
    /\ target_axis_projection = None
    /\ intersections = None
    /\ destination = None
    /\ matrix = None
    /\ AllIdleBut("rotate_to_height_matrix")

NextRotate == rotate_to_height_matrix

SpecRotate == InitRotate /\ [][NextRotate]_vars

(***************************************************************************)
(* rotate_to_height_matrix on any input: the axes and targets of above and *)
(* those the docstring excludes, an axis direction that is zero or         *)
(* vertical and a target point on the axis.                                *)
(***************************************************************************)
DegenerateAxes == {<<0, 0, 0>>, <<0, 0, 1>>, <<0, 0, -1>>}

InitRotateAny ==
    /\ rth_pc = "measure"
    /\ \E p \in AxisPoints, v \in AxisVectors \cup DegenerateAxes, t \in IntPoints :
           /\ axis_point = IVec(p)
           /\ axis_vector = IVec(v)
           /\ target_point = IVec(t)
    /\ \E h \in (0 - MaxHeight)..MaxHeight : height = NInt(h)
    /\ distance2 = None
    /\ target_axis_projection = None
    /\ intersections = None
    /\ destination = None
    /\ matrix = None
    /\ AllIdleBut("rotate_to_height_matrix")

NextRotateAny == rotate_to_height_matrix \/ RTH_KernelRefuses

SpecRotateAny == InitRotateAny /\ [][NextRotateAny]_vars

(***************************************************************************)
(* cluster_assembly and thumb_assembly: the leveling of the cluster group  *)
(* on its three supports.  The names are those of cluster_assembly; in     *)
(* thumb_assembly front, back_left and back_right are lower, side and      *)
(* upper.  A support is built about its screw axis, with the ball magnet   *)
(* on top of the screw: the middle of the support in x and y is that of    *)
(* the ball, and its top is the top of the ball.                           *)
(***************************************************************************)
\* ball_magnet_radius = front_ball_magnet.size().z / 2, of Sphere(2.5)
ball_magnet_radius == NRat(5, 2)

Group3(front, back_left, back_right) ==
    [front |-> front, back_left |-> back_left, back_right |-> back_right]

\* the translation of place(~magnet == ~support, ~magnet == ~support,
\* -magnet == +support), magnet being (mid x, mid y, min z)
PlaceOnSupport(magnet0, ball0) ==
    Value({<<NSub(ball[1], magnet[1]), NSub(ball[2], magnet[2]),
             NSub(NAdd(ball[3], ball_magnet_radius), magnet[3])>>
           : magnet \in {magnet0}, ball \in {ball0}})

\* the three points (or magnets) of the group, translated
Moved(group0, by0) ==
    Value({Group3(VAdd(group.front, by), VAdd(group.back_left, by), VAdd(group.back_right, by))
           : group \in {group0}, by \in {by0}})

\* Point3D.create(magnet.mid().x, magnet.mid().y, magnet.min().z - ball_magnet_radius)
SupportPoint(magnet0) ==
    Value({<<magnet[1], magnet[2], NSub(magnet[3], ball_magnet_radius)>>
           : magnet \in {magnet0}})

\* (the named points left where they were)
NotTransformed(group0, by0) == group0

\* cluster_group.transform(matrix), on the named points
Transformed(group0, by0) ==
    Value({Group3(TransformPoint(by, group.front), TransformPoint(by, group.back_left),
                  TransformPoint(by, group.back_right))
           : group \in {group0}, by \in {by0}})

\* (the mirror in the plane z = 0)
MirroredInHeight(p0) == Value({<<p[1], p[2], NNeg(p[3])>> : p \in {p0}})

\* scale(-1, 1, 1, center=(0, 0, 0))
Mirrored(p0) == Value({<<NNeg(p[1]), p[2], p[3]>> : p \in {p0}})

\* the axis of the first rotation
FirstAxis == Vec(1, 0, 0)

\* (the axis of the first rotation used again)
SecondAxisAlongX(front_ball, back_left_ball) == Vec(1, 0, 0)

\* the axis of the second rotation: front_ball_magnet.mid().vectorTo(back_left_ball_magnet.mid())
SecondAxis(front_ball, back_left_ball) == vectorTo(front_ball, back_left_ball)

\* the call of rotate_to_height_matrix
Call_rotate_to_height_matrix(p, v, t, h) ==
    /\ rth_pc = "idle"
    /\ rth_pc' = "measure"
    /\ axis_point' = p
    /\ axis_vector' = v
    /\ target_point' = t
    /\ height' = h
    /\ distance2' = None
    /\ target_axis_projection' = None
    /\ intersections' = None
    /\ destination' = None
    /\ matrix' = None

\* cluster_group.place(~front_magnet == ~front_support, ..., -front_magnet == +front_support)
CA_PlaceGroup ==
    /\ asm_pc = "place_group"
    /\ magnets' = Moved(magnets, PlaceOnSupport(magnets.front, ball_magnets.front))
    /\ asm_pc' = "add_named_points"
    /\ UNCHANGED <<otherVars, rthVars, assembly, left_hand, named_points, ball_magnets,
                   first_rotation, second_rotation>>

\* the three add_named_point
CA_AddNamedPoints ==
    /\ asm_pc = "add_named_points"
    /\ named_points' = Group3(SupportPoint(magnets.front), SupportPoint(magnets.back_left),
                              SupportPoint(magnets.back_right))
    /\ asm_pc' = "first_rotation"
    /\ UNCHANGED <<otherVars, rthVars, assembly, left_hand, magnets, ball_magnets,
                   first_rotation, second_rotation>>

\* first_rotation = rotate_to_height_matrix(...): the call
CA_FirstRotation ==
    /\ asm_pc = "first_rotation"
    /\ Call_rotate_to_height_matrix(ball_magnets.front, FirstAxis,
                                    named_points.back_left, ball_magnets.back_left[3])
    /\ asm_pc' = "first_transform"
    /\ UNCHANGED <<otherVars, assembly, left_hand, magnets, named_points, ball_magnets,
                   first_rotation, second_rotation>>

\* ... its return, and cluster_group.transform(first_rotation).  The magnets
\* are read no more, and are not followed through the rotations.
CA_FirstTransform ==
    /\ asm_pc = "first_transform"
    /\ rth_pc = "returned"
    /\ first_rotation' = matrix
    /\ named_points' = Transformed(named_points, matrix)
    /\ rth_pc' = "idle"
    /\ asm_pc' = "place_back_left"
    /\ UNCHANGED <<otherVars, axis_point, axis_vector, target_point, height, distance2,
                   target_axis_projection, intersections, destination, matrix,
                   assembly, left_hand, magnets, ball_magnets, second_rotation>>

\* back_left_support.place(~back_left_ball_magnet == the named point, x, y and z)
CA_PlaceBackLeft ==
    /\ asm_pc = "place_back_left"
    /\ ball_magnets' = [ball_magnets EXCEPT !.back_left = named_points.back_left]
    /\ asm_pc' = "second_rotation"
    /\ UNCHANGED <<otherVars, rthVars, assembly, left_hand, magnets, named_points,
                   first_rotation, second_rotation>>

\* second_rotation = rotate_to_height_matrix(...): the call
CA_SecondRotation ==
    /\ asm_pc = "second_rotation"
    /\ Call_rotate_to_height_matrix(ball_magnets.front,
                                    SecondAxis(ball_magnets.front, ball_magnets.back_left),
                                    named_points.back_right, ball_magnets.back_right[3])
    /\ asm_pc' = "second_transform"
    /\ UNCHANGED <<otherVars, assembly, left_hand, magnets, named_points, ball_magnets,
                   first_rotation, second_rotation>>

\* ... its return, and cluster_group.transform(second_rotation)
CA_SecondTransform ==
    /\ asm_pc = "second_transform"
    /\ rth_pc = "returned"
    /\ second_rotation' = matrix
    /\ named_points' = Transformed(named_points, matrix)
    /\ rth_pc' = "idle"
    /\ asm_pc' = "place_back_right"
    /\ UNCHANGED <<otherVars, axis_point, axis_vector, target_point, height, distance2,
                   target_axis_projection, intersections, destination, matrix,
                   assembly, left_hand, magnets, ball_magnets, first_rotation>>

\* back_right_support.place(~back_right_ball_magnet == the named point, x, y and z)
CA_PlaceBackRight ==
    /\ asm_pc = "place_back_right"
    /\ ball_magnets' = [ball_magnets EXCEPT !.back_right = named_points.back_right]
    /\ asm_pc' = IF assembly = "thumb_assembly" /\ left_hand THEN "left_hand" ELSE "return"
    /\ UNCHANGED <<otherVars, rthVars, assembly, left_hand, magnets, named_points,
                   first_rotation, second_rotation>>

\* thumb_assembly, if left_hand: the group and the supports mirrored in x
TA_LeftHand ==
    /\ asm_pc = "left_hand"
    /\ named_points' = Group3(Mirrored(named_points.front), Mirrored(named_points.back_left),
                              Mirrored(named_points.back_right))
    /\ ball_magnets' = Group3(Mirrored(ball_magnets.front), Mirrored(ball_magnets.back_left),
                              Mirrored(ball_magnets.back_right))
    /\ asm_pc' = "return"
    /\ UNCHANGED <<otherVars, rthVars, assembly, left_hand, magnets, first_rotation, second_rotation>>

\* (the error caught in the assembly, which returns what it has)
CA_RaiseCaught ==
    /\ asm_pc \in {"first_transform", "second_transform"}
    /\ rth_pc = "AssertionError"
    /\ asm_pc' = "return"
    /\ UNCHANGED <<otherVars, rthVars, assembly, left_hand, magnets, named_points, ball_magnets,
                   first_rotation, second_rotation>>

\* the failed assertion of rotate_to_height_matrix leaves the assembly
CA_Raise ==
    /\ asm_pc \in {"first_transform", "second_transform"}
    /\ rth_pc = "AssertionError"
    /\ asm_pc' = "AssertionError"
    /\ UNCHANGED <<otherVars, rthVars, assembly, left_hand, magnets, named_points, ball_magnets,
                   first_rotation, second_rotation>>

cluster_assembly ==
    \/ CA_PlaceGroup \/ CA_AddNamedPoints
    \/ CA_FirstRotation \/ CA_FirstTransform \/ CA_PlaceBackLeft
    \/ CA_SecondRotation \/ CA_SecondTransform \/ CA_PlaceBackRight
    \/ TA_LeftHand \/ CA_Raise

(***************************************************************************)
(* Cluster groups and supports of the leveling.  The back left magnet is   *)
(* at distance 5 of the first axis and the rise to its support is a whole  *)
(* number: the first rotation has rational coordinates, and the second     *)
(* takes the one square root a number carries.  It is level with the front *)
(* magnet in x, which keeps the coordinates of the second rotation within  *)
(* the integers of TLC.                                                    *)
(***************************************************************************)
FrontMagnets == {<<1, 2, -1>>}

BackLeftOffsets == {<<0, 4, 3>>, <<0, 3, -4>>, <<0, 5, 0>>, <<0, -4, -3>>}

BackRightOffsets == {<<3, 1, 0>>, <<4, -2, 1>>, <<0, 2, 2>>}

FrontHeights == {1}

BackLeftRises == {-4, 0, 3, 5, 6}

BackRightHeights == {0, 1, 2, 4}

IAdd(s, t) == <<s[1] + t[1], s[2] + t[2], s[3] + t[3]>>

LevelStart ==
    /\ asm_pc = "place_group"
    /\ \E a \in {"cluster_assembly", "thumb_assembly"}, l \in BOOLEAN :
           /\ a = "cluster_assembly" => ~l
           /\ assembly = a
           /\ left_hand = l
    /\ \E f \in FrontMagnets, b \in BackLeftOffsets, c \in BackRightOffsets :
           magnets = Group3(IVec(f), IVec(IAdd(f, b)), IVec(IAdd(f, c)))
    /\ \E zf \in FrontHeights, rise \in BackLeftRises, zr \in BackRightHeights :
           ball_magnets = Group3(Vec(0, 0, zf), Vec(0, 0, zf + rise), Vec(0, 0, zr))
    /\ named_points = None
    /\ first_rotation = None
    /\ second_rotation = None
    /\ RthIdle

InitLevel == LevelStart /\ AllIdleBut("cluster_assembly")

NextLevel == cluster_assembly \/ rotate_to_height_matrix

SpecLevel == InitLevel /\ [][NextLevel]_vars

(***************************************************************************)
(* run_design(design_func, ...), with a design function that builds one of *)
(* the two assemblies.  Line 2485 hands design_func to fscad.run_design,   *)
(* which calls it: what it returns or raises arrives there.  No function   *)
(* of lalboard.py has a try, and none is between the solver and line 2485. *)
(***************************************************************************)
\* design_func returns
RD_Return ==
    /\ rd_pc = "design_func"
    /\ asm_pc = "return"
    /\ rd_pc' = "returned"
    /\ UNCHANGED <<rthVars, asmVars, ftVars, rrVars, ssaVars, earlier, partVars>>

\* design_func raises what the assembly raised
RD_Raise ==
    /\ rd_pc = "design_func"
    /\ asm_pc = "AssertionError"
    /\ rd_pc' = "AssertionError"
    /\ UNCHANGED <<rthVars, asmVars, ftVars, rrVars, ssaVars, earlier, partVars>>

run_design == RD_Return \/ RD_Raise

InitDesign ==
    /\ rd_pc = "design_func"
    /\ LevelStart
    /\ TangentIdle
    /\ RidgeIdle
    /\ ScrewIdle
    /\ PartsIdleBut("run_design")
    /\ earlier = None

NextDesign == run_design \/ cluster_assembly \/ rotate_to_height_matrix

\* a call that can take a step takes it
SpecDesign == InitDesign /\ [][NextDesign]_vars /\ WF_vars(NextDesign)

(***************************************************************************)
(* Properties of run_design over an assembly (SpecDesign).                 *)
(***************************************************************************)
\* the assertion of rotate_to_height_matrix has failed
SolverFailed == rth_pc = "AssertionError"

\* from the failure on the solver is not run again, the assembly places and
\* transforms nothing more, and it does not go on to a later step
AbortsAssembly ==
    SolverFailed
        => /\ rth_pc' = "AssertionError"
           /\ asm_pc' \in {asm_pc, "AssertionError"}
           /\ UNCHANGED <<magnets, named_points, ball_magnets, first_rotation, second_rotation>>

\* C14: once the assertion of rotate_to_height_matrix has failed, the
\* assembly that called it takes no further step of its own and returns
\* nothing, run_design does not see design_func return, and the error
\* arrives in the assembly and then in run_design.
C14_ErrorPropagates ==
    /\ [][AbortsAssembly]_vars
    /\ [](SolverFailed => asm_pc # "return" /\ rd_pc # "returned")
    /\ SolverFailed ~> (asm_pc = "AssertionError" /\ rd_pc = "AssertionError")

\* the second rotation has failed, after the first was applied, and the
\* error is in run_design
C14_Witness ==
    /\ SolverFailed
    /\ asm_pc = "AssertionError"
    /\ rd_pc = "AssertionError"
    /\ first_rotation # None
    /\ second_rotation = None

\* the designed height of the back right support is that of its ball magnet
\* until the support is placed
LevelEnded == asm_pc \in {"place_back_right", "left_hand", "return"}

\* C2: with the group pinned on the front support and transformed by both
\* rotations, each of the three named points is at the height of the ball
\* magnet of its support; this already before the back right support is
\* moved under its point, while its ball magnet is at the height it was
\* built with.
C2_ThreePointsLevel ==
    LevelEnded
        => /\ named_points.front[3] = ball_magnets.front[3]
           /\ named_points.back_left[3] = ball_magnets.back_left[3]
           /\ named_points.back_right[3] = ball_magnets.back_right[3]

C2_Witness ==
    /\ asm_pc = "place_back_right"
    /\ first_rotation # Matrix3D_create
    /\ second_rotation # Matrix3D_create
    /\ ~NIsRational(named_points.back_right[1])
    /\ named_points.front[3] = ball_magnets.front[3]
    /\ named_points.back_left[3] = ball_magnets.back_left[3]
    /\ named_points.back_right[3] = ball_magnets.back_right[3]

(***************************************************************************)
(* Properties of rotate_to_height_matrix (SpecRotate).                     *)
(***************************************************************************)
RTH_Ended == rth_pc \in {"AssertionError", "returned"}

\* where the returned matrix takes target_point
RTH_Image == TransformPoint(matrix, target_point)

\* The path of target_point about the axis is the circle of centre c and
\* squared radius r2 in the plane normal to the axis; its heights are those
\* with (h - c.z)^2 <= r2 (1 - v.z^2 / v.v).  PathHeightSign is 1 where the
\* plane z = height crosses the path, 0 where it touches it and -1 where it
\* misses it.
PathHeightSign ==
    LET e == vectorTo(axis_point, target_point)
        vv == Dot(axis_vector, axis_vector)
        k == NDiv(Dot(e, axis_vector), vv)
        r2 == NSub(Dot(e, e), NMul(NMul(k, k), vv))
        cz == NAdd(axis_point[3], NMul(k, axis_vector[3]))
        rise2 == NMul(r2, NSub(NOne, NDiv(NMul(axis_vector[3], axis_vector[3]), vv)))
    IN  NSign(NSub(rise2, NMul(NSub(height, cz), NSub(height, cz))))

\* the cosine of the angle at the axis projection between target_point and
\* a point of its path
PathCos(on_path) ==
    NDiv(Dot(vectorTo(target_axis_projection, target_point),
             vectorTo(target_axis_projection, on_path)),
         distance2)

\* the cosine of the angle the returned matrix turns by: (trace - 1) / 2
RotationCos ==
    NDiv(NSub(NAdd(NAdd(matrix.lin[1][1], matrix.lin[2][2]), matrix.lin[3][3]), NOne),
         NInt(2))

C3_SmallerAngleChosen ==
    (rth_pc = "returned" /\ Len(intersections) = 2)
        => /\ destination \in {intersections[1], intersections[2]}
           /\ RTH_Image = destination
           /\ \A i \in 1..2 :
                  /\ ~NLess(PathCos(destination), PathCos(intersections[i]))
                  /\ ~NLess(RotationCos, PathCos(intersections[i]))

C3_Witness ==
    /\ rth_pc = "returned"
    /\ Len(intersections) = 2
    /\ destination = intersections[1]
    /\ NLess(PathCos(intersections[2]), RotationCos)

\* C4: when the plane z = height misses the path, the function ends in its
\* failed assertion and no matrix is made.
C4_NoIntersectionFails ==
    (RTH_Ended /\ PathHeightSign < 0)
        => (rth_pc = "AssertionError" /\ intersections = <<>> /\ matrix = None)

C4_Witness ==
    /\ rth_pc = "AssertionError"
    /\ PathHeightSign < 0
    /\ intersections = <<>>
    /\ matrix = None

uncopied(object, changed) == [argument |-> changed, result |-> changed]

\* x = object.copy(), and x then changed in place by scaleBy, translateBy
\* or transformBy: the object as it is left, and x
copy(object, changed) == [argument |-> object, result |-> changed]

\* left_point_to_mid.scaleBy(.5)
Halved(v) == VScale(NRat(1, 2), v)

\* midpoint = point.copy(); midpoint.translateBy(left_point_to_mid)
translateBy(p, v) == VAdd(p, v)

\* Circle(left_point_to_mid.length), placed with its middle on the midpoint
IntersectingCircle(to_mid0, mid) ==
    Value({PlacedCircle(Dot(to_mid, to_mid), Vec(0, 0, 1), mid) : to_mid \in {to_mid0}})

\* the two faces lie in one plane
Coplanar(c10, c20) ==
    Value({/\ Cross(c1.normal, c2.normal) = Vec(0, 0, 0)
           /\ Dot(c1.normal, vectorTo(c1.center, c2.center)) = NZero
           : c1 \in {c10}, c2 \in {c20}})

\* the points of both circles: on the line of the centres at
\* along = (r1^2 - r2^2 + dd) / (2 dd) of the way from the first centre to
\* the second, and off it by +- sqrt(r1^2 / dd - along^2) of the way, dd the
\* squared distance of the centres
CornersOff(c1, e, nn, dd, along0, order) ==
    Value({PointsAbout(VAdd(c1.center, VScale(along, e)),
                       Cross(c1.normal, e),
                       NDiv(NSub(NDiv(c1.radius2, dd), NMul(along, along)), nn),
                       order)
           : along \in {along0}})

CornersAlong(c1, c2, e, dd0, order) ==
    Value({IF NSign(dd) = 0 THEN <<>>
           ELSE CornersOff(c1, e, Dot(c1.normal, c1.normal), dd,
                           NDiv(NAdd(NSub(c1.radius2, c2.radius2), dd), NMul(NInt(2), dd)),
                           order)
           : dd \in {dd0}})

CornersBetween(c1, c2, e0, order) ==
    Value({CornersAlong(c1, c2, e, Dot(e, e), order) : e \in {e0}})

\* Intersection(circle, intersecting_circle).bodies[0].brep.vertices, of two
\* faces in one plane: the face common to both has its vertices where the
\* two circles cross or touch; the kernel documents no order
IntersectionVertices(c10, c20, order) ==
    Value({CornersBetween(c1, c2, vectorTo(c1.center, c2.center), order)
           : c1 \in {c10}, c2 \in {c20}})

\* Intersection(...).bodies: two faces in different planes have no face in
\* common
IntersectionHasBody(c1, c2) == Coplanar(c1, c2)

\* lines 619-622
FT_Midpoint ==
    /\ ft_pc = "midpoint"
    /\ left_point_to_mid' = Halved(vectorTo(point, circle.center))
    /\ LET moved == copy(point, translateBy(point, left_point_to_mid'))
       IN  /\ midpoint' = moved.result
           /\ point' = moved.argument
    /\ ft_pc' = "intersecting_circle"
    /\ UNCHANGED <<notFt, circle, intersecting_circle, vertices>>

\* lines 623-626
FT_IntersectingCircle ==
    /\ ft_pc = "intersecting_circle"
    /\ intersecting_circle' = IntersectingCircle(left_point_to_mid, midpoint)
    /\ ft_pc' = "vertices"
    /\ UNCHANGED <<notFt, circle, point, left_point_to_mid, midpoint,
                   vertices>>

\* lines 628-629
FT_Vertices ==
    /\ ft_pc = "vertices"
    /\ IntersectionHasBody(circle, intersecting_circle)
    /\ \E order \in {0, 1} :
           vertices' = IntersectionVertices(circle, intersecting_circle, order)
    /\ ft_pc' = "returned"
    /\ UNCHANGED <<notFt, circle, point, left_point_to_mid, midpoint,
                   intersecting_circle>>

\* line 628: bodies[0] of no bodies
FT_IndexError ==
    /\ ft_pc = "vertices"
    /\ ~IntersectionHasBody(circle, intersecting_circle)
    /\ ft_pc' = "IndexError"
    /\ UNCHANGED <<notFt, circle, point, left_point_to_mid, midpoint,
                   intersecting_circle, vertices>>

find_tangent_intersection_on_circle ==
    FT_Midpoint \/ FT_IntersectingCircle \/ FT_Vertices \/ FT_IndexError

(***************************************************************************)
(* Circles and points of the tangent solver: circles in the plane z = 0,   *)
(* circles in other planes, points in and off the plane of the circle.     *)
(* A point on the centre of the circle is left out: it asks for a circle   *)
(* of radius 0.                                                            *)
(***************************************************************************)
MaxRadius == 2

MaxReach == 2

CircleCentres == {<<0, 0, 0>>, <<1, -1, 2>>}

CircleNormals == {<<0, 0, 1>>, <<0, 0, -1>>, <<1, 0, 0>>, <<0, 1, 1>>}

Reach == (0 - MaxReach)..MaxReach

InitTangent ==
    /\ ft_pc = "midpoint"
    /\ \E c \in CircleCentres, n \in CircleNormals, r \in 1..MaxRadius,
          o \in Reach \X Reach \X Reach :
           /\ o # <<0, 0, 0>>
           /\ circle = PlacedCircle(NInt(r * r), IVec(n), IVec(c))
           /\ point = IVec(IAdd(c, o))
    /\ left_point_to_mid = None
    /\ midpoint = None
    /\ intersecting_circle = None
    /\ vertices = None
    /\ AllIdleBut("find_tangent_intersection_on_circle")

NextTangent == find_tangent_intersection_on_circle

SpecTangent == InitTangent /\ [][NextTangent]_vars

(***************************************************************************)
(* Properties of find_tangent_intersection_on_circle (SpecTangent).        *)
(***************************************************************************)
FT_Ended == ft_pc \in {"returned", "IndexError"}

\* the squared distance of the point from the centre of the circle
FT_Distance2 == Dot(vectorTo(circle.center, point), vectorTo(circle.center, point))

\* the point lies in the plane of the circle
FT_InPlane == Dot(circle.normal, vectorTo(circle.center, point)) = NZero

FT_Outside == FT_InPlane /\ NLess(circle.radius2, FT_Distance2)

FT_Inside == FT_InPlane /\ NLess(FT_Distance2, circle.radius2)

FT_OnCircle == FT_InPlane /\ FT_Distance2 = circle.radius2

\* the circle lies in a plane parallel to z = 0
FT_Level == Cross(circle.normal, Vec(0, 0, 1)) = Vec(0, 0, 0)

\* t is on the circle, and the radius to t is at a right angle to the line
\* from t to the point
IsTangentPoint(t) ==
    /\ Dot(circle.normal, vectorTo(circle.center, t)) = NZero
    /\ Dot(vectorTo(circle.center, t), vectorTo(circle.center, t)) = circle.radius2
    /\ Dot(vectorTo(circle.center, t), vectorTo(t, point)) = NZero

\* C7: for any circle and any point of its plane strictly outside it, the
\* function returns exactly 2 points, each at distance radius from the
\* centre of the circle and each with its radius at a right angle to the
\* line to the point.
C7_TwoTangentPoints ==
    (FT_Ended /\ FT_Outside)
        => /\ ft_pc = "returned"
           /\ Len(vertices) = 2
           /\ \A i \in 1..Len(vertices) : IsTangentPoint(vertices[i])

\* a circle in the plane x = const and a point of that plane outside it:
\* no points are returned
C7_Witness ==
    /\ ft_pc = "IndexError"
    /\ FT_Outside
    /\ ~FT_Level
    /\ vertices = None

\* C8: with the point inside the circle the function gives no points; with
\* the point on the circle it gives that one point; in neither case two
\* points.
C8_InsideOrOnDegenerate ==
    FT_Ended
        => /\ FT_Inside => vertices = <<>>
           /\ FT_OnCircle => (ft_pc = "returned" /\ vertices = <<point>>)

\* a circle in the plane x = const and a point on it: no point is returned
C8_Witness ==
    /\ ft_pc = "IndexError"
    /\ FT_OnCircle
    /\ ~FT_Level
    /\ vertices = None

\* What holds of the circles parallel to z = 0: two tangent points from
\* outside, none from inside, the point itself from on the circle.
FT_LevelCircles ==
    (ft_pc = "returned" /\ FT_Level /\ FT_InPlane)
        => /\ FT_Outside => (Len(vertices) = 2 /\ vertices[1] # vertices[2]
                             /\ \A i \in 1..2 : IsTangentPoint(vertices[i]))
           /\ FT_Inside => vertices = <<>>
           /\ FT_OnCircle => vertices = <<point>>

(***************************************************************************)
(* retaining_ridge_design(pressed_key_angle, length)                       *)
(*                                                                         *)
(* An angle is carried as its cosine and sine.  The list lines of the      *)
(* source counts from 0 and the sequence lines here from 1: lines[i] of    *)
(* the source is LineAt(i).                                                *)
(***************************************************************************)
Degrees(c, s) == [cos |-> c, sin |-> s]

\* -angle
Minus(angle) == Degrees(angle.cos, NNeg(angle.sin))

Degrees0 == Degrees(NOne, NZero)

Degrees90 == Degrees(NZero, NOne)

\* cos 45 = sin 45 = sqrt(1/2)
Degrees45 == Degrees(NSqrt(NRat(1, 2)), NSqrt(NRat(1, 2)))

Degrees135 == Degrees(NNeg(NSqrt(NRat(1, 2))), NSqrt(NRat(1, 2)))

\* the angle of half tangent 1/m: cos = (m^2 - 1) / (m^2 + 1),
\* sin = 2 m / (m^2 + 1)
HalfCot(m) == Degrees(NRat(m * m - 1, m * m + 1), NRat(2 * m, m * m + 1))

\* 126.87 degrees: cos = -3/5, sin = 4/5
Degrees127 == Degrees(NRat(-3, 5), NRat(4, 5))

\* (turned the other way round)
rotatedClockwise(vector0, angle0) ==
    Value({copy(vector,
                <<NAdd(NMul(vector[1], angle.cos), NMul(vector[2], angle.sin)),
                  NSub(NMul(vector[2], angle.cos), NMul(vector[1], angle.sin)),
                  vector[3]>>)
           : vector \in {vector0}, angle \in {angle0}})

\* vector = vector.copy(); matrix.setToRotation(math.radians(angle), z axis,
\* origin); vector.transformBy(matrix): the argument as it is left, and the
\* vector returned
rotated(vector0, angle0) ==
    Value({copy(vector,
                <<NSub(NMul(vector[1], angle.cos), NMul(vector[2], angle.sin)),
                  NAdd(NMul(vector[1], angle.sin), NMul(vector[2], angle.cos)),
                  vector[3]>>)
           : vector \in {vector0}, angle \in {angle0}})

\* the inner vectorTo(point, vector, length): the copy of the vector scaled
\* by the length, and the copy of the point moved by it; the point argument
\* as it is left, and the point returned
vectorToScaled(from, vector, by) ==
    LET scaled == copy(vector, VScale(by, vector))
        moved == copy(from, translateBy(from, scaled.result))
    IN  [point |-> moved.argument, vector |-> scaled.argument, result |-> moved.result]

\* (a ridge that does not stick out)
no_ridge_thickness == NZero

\* how much it sticks out
retaining_ridge_thickness == NRat(3, 10)

retaining_ridge_lower_angle == Degrees45

\* (a ridge with no face)
no_ridge_width == NZero

\* the length of the "face" of the ridge
retaining_ridge_width == NRat(3, 10)

\* the point of the first line at  t = ((o2 - o1) x d2) . w / w . w,
\* w = d1 x d2, if it lies on the second line
MeetingAt(l1, l2, at0) ==
    Value({IF Cross(vectorTo(l2.origin, at), l2.direction) = Vec(0, 0, 0)
           THEN <<at>> ELSE <<>>
           : at \in {at0}})

MeetingAcross(l1, l2, w0) ==
    Value({IF w = Vec(0, 0, 0) THEN <<>>
           ELSE MeetingAt(l1, l2,
                    VAdd(l1.origin,
                         VScale(NDiv(Dot(Cross(vectorTo(l1.origin, l2.origin), l2.direction), w),
                                     Dot(w, w)),
                                l1.direction)))
           : w \in {w0}})

\* InfiniteLine3D.intersectWithCurve(line): the point the two lines share,
\* none if they are parallel or skew
intersectWithLine(l10, l20) ==
    Value({MeetingAcross(l1, l2, Cross(l1.direction, l2.direction))
           : l1 \in {l10}, l2 \in {l20}})

\* lines[i], i from -1 on
LineAt(i) == lines[(i % Len(lines)) + 1]

\* lines 166-170: right is up turned by -90, down is right turned by -90
\* and left is down turned by -90
RR_Frame ==
    /\ rr_pc = "frame"
    /\ origin' = Vec(0, 0, 0)
    /\ LET to_right == rotated(Vec(0, 1, 0), Minus(Degrees90))
           to_down == rotated(to_right.result, Minus(Degrees90))
           to_left == rotated(to_down.result, Minus(Degrees90))
       IN  /\ up' = to_right.argument
           /\ right' = to_down.argument
           /\ down' = to_left.argument
           /\ left' = to_left.result
    /\ rr_pc' = "lines"
    /\ UNCHANGED <<notRr, pressed_key_angle, length, lines, points>>

\* lines 172-178
RR_Lines ==
    /\ rr_pc = "lines"
    /\ LET turned == rotated(down, Minus(pressed_key_angle))
       IN  /\ lines' = <<InfiniteLine3D_create(origin, turned.result),
                         InfiniteLine3D_create(origin, left)>>
           /\ down' = turned.argument
    /\ rr_pc' = "third_line"
    /\ UNCHANGED <<notRr, pressed_key_angle, length, points, origin, up, right, left>>

\* lines 180-183
RR_ThirdLine ==
    /\ rr_pc = "third_line"
    /\ LET outward == rotated(left, Minus(pressed_key_angle))
           at == vectorToScaled(origin, outward.result, retaining_ridge_thickness)
           turned == rotated(down, Minus(pressed_key_angle))
       IN  /\ lines' = Append(lines, InfiniteLine3D_create(at.result, turned.result))
           /\ left' = outward.argument
           /\ origin' = at.point
           /\ down' = turned.argument
    /\ rr_pc' = "fourth_line"
    /\ UNCHANGED <<notRr, pressed_key_angle, length, points, up, right>>

\* lines 185-188
RR_FourthLine ==
    /\ rr_pc = "fourth_line"
    /\ intersectWithLine(LineAt(1), LineAt(2)) # <<>>
    /\ LET along == rotated(down, Minus(pressed_key_angle))
           at == vectorToScaled(intersectWithLine(LineAt(1), LineAt(2))[1],
                                along.result, retaining_ridge_width)
           turned == rotated(along.argument, retaining_ridge_lower_angle)
       IN  /\ lines' = Append(lines, InfiniteLine3D_create(at.result, turned.result))
           /\ down' = turned.argument
    /\ points' = <<>>
    /\ rr_pc' = "points"
    /\ UNCHANGED <<notRr, pressed_key_angle, length, origin, up, right, left>>

\* line 185: [0] of no intersection
RR_FourthLineIndexError ==
    /\ rr_pc = "fourth_line"
    /\ intersectWithLine(LineAt(1), LineAt(2)) = <<>>
    /\ rr_pc' = "IndexError"
    /\ UNCHANGED <<notRr, pressed_key_angle, length, lines, points, rrFrame>>

\* (for i in range(0, 4), the first point that of the first two lines)
RR_PointFromZero ==
    /\ rr_pc = "points"
    /\ Len(points) < 4
    /\ intersectWithLine(LineAt(Len(points)), LineAt(Len(points) + 1)) # <<>>
    /\ points' = Append(points,
                     intersectWithLine(LineAt(Len(points)), LineAt(Len(points) + 1))[1])
    /\ UNCHANGED <<notRr, rr_pc, pressed_key_angle, length, lines, rrFrame>>

\* lines 190-192: for i in range(-1, 3), i = len(points) - 1
RR_Point ==
    /\ rr_pc = "points"
    /\ Len(points) < 4
    /\ intersectWithLine(LineAt(Len(points) - 1), LineAt(Len(points))) # <<>>
    /\ points' = Append(points,
                     intersectWithLine(LineAt(Len(points) - 1), LineAt(Len(points)))[1])
    /\ UNCHANGED <<notRr, rr_pc, pressed_key_angle, length, lines, rrFrame>>

\* line 192: [0] of no intersection
RR_PointIndexError ==
    /\ rr_pc = "points"
    /\ Len(points) < 4
    /\ intersectWithLine(LineAt(Len(points) - 1), LineAt(Len(points))) = <<>>
    /\ rr_pc' = "IndexError"
    /\ UNCHANGED <<notRr, pressed_key_angle, length, lines, points, rrFrame>>

\* points[i], i from 1 round the polygon
Vertex(i) == points[((i - 1) % 4) + 1]

\* the sign of u x v = u.x v.y - u.y v.x, by the slopes of u and v: the
\* product of two coordinates need not be formed
CrossSign(u0, v0) ==
    Value({IF NSign(u[2]) = 0 THEN NSign(u[1]) * NSign(v[2])
           ELSE IF NSign(v[2]) = 0 THEN 0 - NSign(u[2]) * NSign(v[1])
           ELSE NSign(u[2]) * NSign(v[2])
                    * NCmp(NDiv(u[1], u[2]), NDiv(v[1], v[2]))
           : u \in {u0}, v \in {v0}})

\* 1 where a, b, c turn left (counterclockwise), -1 where they turn right,
\* 0 where they are in line
Orientation(a, b, c) == CrossSign(vectorTo(a, b), vectorTo(a, c))

\* x <= y
NAtMost(x, y) == ~NLess(y, x)

\* c, in line with a and b, is between them
Between(a, b, c) ==
    /\ NAtMost(a[1], c[1]) \/ NAtMost(b[1], c[1])
    /\ NAtMost(c[1], a[1]) \/ NAtMost(c[1], b[1])
    /\ NAtMost(a[2], c[2]) \/ NAtMost(b[2], c[2])
    /\ NAtMost(c[2], a[2]) \/ NAtMost(c[2], b[2])

\* the segments a b and c d have a point in common
SegmentsMeet(a, b, c, d) ==
    \/ /\ Orientation(a, b, c) # Orientation(a, b, d)
       /\ Orientation(c, d, a) # Orientation(c, d, b)
    \/ Orientation(a, b, c) = 0 /\ Between(a, b, c)
    \/ Orientation(a, b, d) = 0 /\ Between(a, b, d)
    \/ Orientation(c, d, a) = 0 /\ Between(c, d, a)
    \/ Orientation(c, d, b) = 0 /\ Between(c, d, b)

\* the two sides at Vertex(i + 1) do not run along each other
NoFoldAt(i) ==
    \/ Orientation(Vertex(i), Vertex(i + 1), Vertex(i + 2)) # 0
    \/ Between(Vertex(i), Vertex(i + 2), Vertex(i + 1))

PairwiseDistinct == \A i, j \in 1..4 : i # j => Vertex(i) # Vertex(j)

\* no two sides have a point in common but neighbours their vertex
IsSimple ==
    /\ PairwiseDistinct
    /\ ~SegmentsMeet(Vertex(1), Vertex(2), Vertex(3), Vertex(4))
    /\ ~SegmentsMeet(Vertex(2), Vertex(3), Vertex(4), Vertex(1))
    /\ \A i \in 1..4 : NoFoldAt(i)

\* every corner turns the same way
IsConvex ==
    /\ Orientation(Vertex(1), Vertex(2), Vertex(3)) # 0
    /\ \A i \in 1..4 : Orientation(Vertex(i), Vertex(i + 1), Vertex(i + 2))
                         = Orientation(Vertex(1), Vertex(2), Vertex(3))

\* Twice the signed area of a quadrilateral is the cross product of its
\* diagonals, (v3 - v1) x (v4 - v2): the shoelace sum with its terms
\* gathered.  It is positive counterclockwise.
SignedArea2 ==
    Cross(vectorTo(Vertex(1), Vertex(3)), vectorTo(Vertex(2), Vertex(4)))[3]

AreaSign == CrossSign(vectorTo(Vertex(1), Vertex(3)), vectorTo(Vertex(2), Vertex(4)))

\* a face can be made of the profile: its sides do not cross and it has area
ValidProfile == IsSimple /\ AreaSign # 0

\* lines 194-200: the polygon of the points, extruded by length and turned
\* upright
RR_Polygon ==
    /\ rr_pc = "points"
    /\ Len(points) = 4
    /\ rr_pc' = "returned"
    /\ UNCHANGED <<notRr, pressed_key_angle, length, lines, points, rrFrame>>

\* lines 194-195, where the kernel makes no face or body of a profile that
\* crosses itself or has no area.  The function itself looks at the points
\* nowhere, and whether Polygon and Extrude take such a profile is the
\* kernel's: both outcomes are kept.
RR_PolygonRefused ==
    /\ rr_pc = "points"
    /\ Len(points) = 4
    /\ ~ValidProfile
    /\ rr_pc' = "RuntimeError"
    /\ UNCHANGED <<notRr, pressed_key_angle, length, lines, points, rrFrame>>

retaining_ridge_design ==
    \/ RR_Frame \/ RR_Lines \/ RR_ThirdLine \/ RR_FourthLine \/ RR_FourthLineIndexError
    \/ RR_Point \/ RR_PointIndexError \/ RR_Polygon \/ RR_PolygonRefused

(***************************************************************************)
(* Angles and lengths of the ridge.  The angles the designs use are        *)
(* between 0 and 15 degrees; those taken here are 0 and the angles of that *)
(* range with half tangent 1/m, whose cosine and sine are rational: m = 27 *)
(* is 4.24 degrees, m = 16 is 7.15, m = 9 is 12.68 and m = 8 is 14.25.     *)
(* Two angles outside the range, 90 and 135 degrees, make lines parallel;  *)
(* a third, 126.87 degrees (cosine -3/5, sine 4/5), makes the sides of the *)
(* profile cross.                                                          *)
(***************************************************************************)
MaxLength == 4

HalfCotangents == {8, 9, 10, 12, 16, 20, 27}

DesignAngles == {Degrees0} \cup {HalfCot(m) : m \in HalfCotangents}

InitRidge ==
    /\ rr_pc = "frame"
    /\ origin = None
    /\ up = None
    /\ right = None
    /\ down = None
    /\ left = None
    /\ pressed_key_angle \in DesignAngles \cup {Degrees90, Degrees135, Degrees127}
    /\ length \in 1..MaxLength
    /\ lines = None
    /\ points = None
    /\ AllIdleBut("retaining_ridge_design")

NextRidge == retaining_ridge_design

SpecRidge == InitRidge /\ [][NextRidge]_vars

(***************************************************************************)
(* Properties of retaining_ridge_design (SpecRidge).                       *)
(***************************************************************************)
RR_Ended == rr_pc \in {"returned", "IndexError", "RuntimeError"}

\* C9: for pressed_key_angle = 0 and any length the function returns, and
\* its four vertices, in the order emitted, are those of a convex, simple
\* quadrilateral of positive signed area.
C9_FlatProfileConvex ==
    (RR_Ended /\ pressed_key_angle = Degrees0)
        => /\ rr_pc = "returned"
           /\ IsConvex
           /\ IsSimple
           /\ AreaSign > 0

C9_Witness ==
    /\ rr_pc = "returned"
    /\ pressed_key_angle = Degrees0
    /\ length = 2
    /\ points = <<<<NZero, NRat(-3, 5), NZero>>, origin,
                  <<NRat(-3, 10), NZero, NZero>>, <<NRat(-3, 10), NRat(-3, 10), NZero>>>>
    /\ SignedArea2 = NRat(27, 100)

\* C10: for every pressed_key_angle of the range the designs use the
\* function returns, and its four vertices are pairwise distinct and those
\* of a polygon that does not cross itself and whose area is not zero.
C10_DesignRangeValid ==
    (RR_Ended /\ pressed_key_angle \in DesignAngles)
        => /\ rr_pc = "returned"
           /\ PairwiseDistinct
           /\ IsSimple
           /\ AreaSign # 0

C10_Witness ==
    /\ rr_pc = "returned"
    /\ pressed_key_angle = HalfCot(9)
    /\ PairwiseDistinct
    /\ IsSimple
    /\ AreaSign > 0
    /\ ~NIsRational(LineAt(3).direction[1])

RTH_AxisUpright == axis_vector[1] = NZero /\ axis_vector[2] = NZero

\* target_point is on the line through axis_point along axis_vector
RTH_TargetOnAxis == Cross(vectorTo(axis_point, target_point), axis_vector) = Vec(0, 0, 0)

RTH_Degenerate == RTH_AxisUpright \/ RTH_TargetOnAxis

Part(bottom, top, turned) == [min_z |-> bottom, max_z |-> top, rz |-> turned]

\* part.rz(angle)
rz(part, angle) == [part EXCEPT !.rz = NAdd(part.rz, angle)]

\* (the part left where it is)
NotPlaced(part0, z) == part0

\* part.place(..., -part == z): the part moved along z, its bottom to z
PlaceBottom(part0, z) ==
    Value({Part(z, NAdd(z, NSub(part.max_z, part.min_z)), part.rz) : part \in {part0}})

\* 360/12
TwelfthTurn == NRat(360, 12)

\* the pitch screw_thread_profile() returns: its default, 1.4
screw_thread_profile_pitch == NRat(7, 5)

\* the bottom of support_base_design()
support_base_min_z == NZero

\* (the turn taken the other way)
ThreadRotationForward(base_top, screw_bottom, p) ==
    NDiv(NMul(NInt(360), NSub(base_top, screw_bottom)), p)

\* -360 * (screw_base.max().z - screw.min().z) / pitch
ThreadRotation(base_top, screw_bottom, p) ==
    NDiv(NMul(NInt(-360), NSub(base_top, screw_bottom)), p)

\* lines 1567-1576: the parts, each turned by 360/12
SSA_Parts ==
    /\ ssa_pc = "parts"
    /\ screw' = rz(Part(NZero, screw_length, NZero), TwelfthTurn)
    /\ screw_base' = rz(Part(NZero, base_length, NZero), TwelfthTurn)
    /\ nut' = rz(Part(NZero, NInt(3), NZero), TwelfthTurn)
    /\ ssa_pc' = "place_screw_base"
    /\ UNCHANGED <<notSsa, screw_length, base_length, screw_height, pitch>>

\* lines 1578-1581
SSA_PlaceScrewBase ==
    /\ ssa_pc = "place_screw_base"
    /\ screw_base' = PlaceBottom(screw_base, support_base_min_z)
    /\ ssa_pc' = "pitch"
    /\ UNCHANGED <<notSsa, screw_length, base_length, screw_height, screw, nut, pitch>>

\* line 1583
SSA_Pitch ==
    /\ ssa_pc = "pitch"
    /\ pitch' = screw_thread_profile_pitch
    /\ ssa_pc' = "place_screw"
    /\ UNCHANGED <<notSsa, screw_length, base_length, screw_height, screw, screw_base, nut>>

\* lines 1585-1588
SSA_PlaceScrew ==
    /\ ssa_pc = "place_screw"
    /\ screw' = PlaceBottom(screw, NAdd(screw_base.min_z, screw_height))
    /\ ssa_pc' = "turn_screw"
    /\ UNCHANGED <<notSsa, screw_length, base_length, screw_height, screw_base, nut, pitch>>

\* line 1589
SSA_TurnScrew ==
    /\ ssa_pc = "turn_screw"
    /\ screw' = rz(screw, ThreadRotation(screw_base.max_z, screw.min_z, pitch))
    /\ ssa_pc' = "place_nut"
    /\ UNCHANGED <<notSsa, screw_length, base_length, screw_height, screw_base, nut, pitch>>

\* lines 1591-1594
SSA_PlaceNut ==
    /\ ssa_pc = "place_nut"
    /\ nut' = PlaceBottom(nut, screw_base.max_z)
    /\ ssa_pc' = "returned"
    /\ UNCHANGED <<notSsa, screw_length, base_length, screw_height, screw, screw_base, pitch>>

screw_support_assembly ==
    \/ SSA_Parts \/ SSA_PlaceScrewBase \/ SSA_Pitch
    \/ SSA_PlaceScrew \/ SSA_TurnScrew \/ SSA_PlaceNut

(***************************************************************************)
(* Screws and bases: the lengths the assemblies pass, and screw heights in *)
(* fifths of a millimetre, 0 to MaxScrewHeight / 5.                        *)
(***************************************************************************)
MaxScrewHeight == 40

ScrewLengths == {7, 13}

BaseLengths == {4, 8}

ScrewStart ==
    /\ ssa_pc = "parts"
    /\ \E l \in ScrewLengths : screw_length = NInt(l)
    /\ \E l \in BaseLengths : base_length = NInt(l)
    /\ \E h \in 0..MaxScrewHeight : screw_height = NRat(h, 5)
    /\ screw = None
    /\ screw_base = None
    /\ nut = None
    /\ pitch = None

InitScrew == ScrewStart /\ AllIdleBut("screw_support_assembly")

NextScrew == screw_support_assembly

SpecScrew == InitScrew /\ [][NextScrew]_vars

(***************************************************************************)
(* Properties of screw_support_assembly (SpecScrew).                       *)
(***************************************************************************)
\* the screw has been turned to its thread phase
SSA_Turned == ssa_pc \in {"place_nut", "returned"}

\* the axial offset: screw_base top z minus screw bottom z
SSA_Offset == NSub(screw_base.max_z, screw.min_z)

\* the rotation applied to the screw after the twelfth of a turn it is
\* built with
SSA_Applied == NSub(screw.rz, TwelfthTurn)

\* C11: the rotation applied to the screw is -360 * d / pitch degrees, d the
\* axial offset and pitch 1.4: applied * pitch = -360 d; it is -360 degrees
\* for an offset of one pitch and 0 for an offset of 0.
C11_ThreadPhase ==
    SSA_Turned
        => /\ pitch = NRat(14, 10)
           /\ NMul(SSA_Applied, pitch) = NMul(NInt(-360), SSA_Offset)
           /\ SSA_Offset = pitch => SSA_Applied = NInt(-360)
           /\ SSA_Offset = NZero => SSA_Applied = NZero

C11_Witness ==
    /\ ssa_pc = "returned"
    /\ base_length = NInt(4)
    /\ screw_height = NRat(13, 5)
    /\ SSA_Offset = NRat(7, 5)
    /\ screw.rz = NInt(-330)


(***************************************************************************)
(* Each solver called a second time with the arguments of its first call.  *)
(* The locals of a call are its own: the second call begins with none      *)
(* assigned.  What the first call gave is kept in `earlier`.               *)
(***************************************************************************)
\* how a call ended, what the kernel answered in it and what it returned
Result(ended, answered, returned) ==
    [ended |-> ended, kernel |-> answered, returned |-> returned]

RTH_Result == Result(rth_pc, intersections, matrix)

FT_Result == Result(ft_pc, vertices, vertices)

RR_Result == Result(rr_pc, lines, points)

SSA_Result == Result(ssa_pc, None, <<screw, screw_base, nut>>)

RTH_CallAgain ==
    /\ earlier = None
    /\ rth_pc \in {"returned", "AssertionError"}
    /\ earlier' = RTH_Result
    /\ rth_pc' = "measure"
    /\ distance2' = None
    /\ target_axis_projection' = None
    /\ intersections' = None
    /\ destination' = None
    /\ matrix' = None
    /\ UNCHANGED <<axis_point, axis_vector, target_point, height,
                   asmVars, ftVars, rrVars, ssaVars, rd_pc, partVars>>

FT_CallAgain ==
    /\ earlier = None
    /\ ft_pc \in {"returned", "IndexError"}
    /\ earlier' = FT_Result
    /\ ft_pc' = "midpoint"
    /\ left_point_to_mid' = None
    /\ midpoint' = None
    /\ intersecting_circle' = None
    /\ vertices' = None
    /\ UNCHANGED <<circle, point, rthVars, asmVars, rrVars, ssaVars, rd_pc, partVars>>

RR_CallAgain ==
    /\ earlier = None
    /\ rr_pc \in {"returned", "IndexError", "RuntimeError"}
    /\ earlier' = RR_Result
    /\ rr_pc' = "frame"
    /\ lines' = None
    /\ points' = None
    /\ origin' = None
    /\ up' = None
    /\ right' = None
    /\ down' = None
    /\ left' = None
    /\ UNCHANGED <<pressed_key_angle, length, rthVars, asmVars, ftVars, ssaVars, rd_pc, partVars>>

SSA_CallAgain ==
    /\ earlier = None
    /\ ssa_pc = "returned"
    /\ earlier' = SSA_Result
    /\ ssa_pc' = "parts"
    /\ screw' = None
    /\ screw_base' = None
    /\ nut' = None
    /\ pitch' = None
    /\ UNCHANGED <<screw_length, base_length, screw_height,
                   rthVars, asmVars, ftVars, rrVars, rd_pc, partVars>>

CallAgain == RTH_CallAgain \/ FT_CallAgain \/ RR_CallAgain \/ SSA_CallAgain

InitAgain == InitRotate \/ InitTangent \/ InitRidge \/ InitScrew

NextAgain ==
    \/ rotate_to_height_matrix
    \/ find_tangent_intersection_on_circle
    \/ retaining_ridge_design
    \/ screw_support_assembly
    \/ CallAgain

SpecAgain == InitAgain /\ [][NextAgain]_vars

(***************************************************************************)
(* Properties of the second call (SpecAgain).                              *)
(***************************************************************************)
\* the elements of a sequence
Range(seq) == {seq[i] : i \in 1..Len(seq)}

\* the second call has ended
RTH_EndedAgain == earlier # None /\ rth_pc \in {"returned", "AssertionError"}

FT_EndedAgain == earlier # None /\ ft_pc \in {"returned", "IndexError"}

RR_EndedAgain == earlier # None /\ rr_pc \in {"returned", "IndexError", "RuntimeError"}

SSA_EndedAgain == earlier # None /\ ssa_pc = "returned"

Kept(object) == (object # None /\ object' # None) => object' = object

\* the arguments of the solvers, and the point and vectors given to the
\* helpers of retaining_ridge_design, after a step
InputsKept ==
    /\ Kept(axis_point) /\ Kept(axis_vector) /\ Kept(target_point)
    /\ Kept(point) /\ Kept(circle)
    /\ Kept(origin) /\ Kept(up) /\ Kept(right) /\ Kept(down) /\ Kept(left)

\* the point and vectors of retaining_ridge_design as lines 166-170 make them
FrameAsMade ==
    /\ origin \in {None, Vec(0, 0, 0)}
    /\ up \in {None, Vec(0, 1, 0)}
    /\ right \in {None, Vec(1, 0, 0)}
    /\ down \in {None, Vec(0, -1, 0)}
    /\ left \in {None, Vec(-1, 0, 0)}

\* C16: no step of rotate_to_height_matrix, find_tangent_intersection_on_circle
\* or retaining_ridge_design changes a point or vector it was given:
\* axis_point, axis_vector, target_point, point, the circle, origin, up,
\* right, down and left are after every step what they were before it, and
\* the ridge's are throughout what they were made.
C16_InputsNotMutated == [][InputsKept]_vars /\ []FrameAsMade

\* the ridge has been made at 12.68 degrees: the first line runs along down
\* turned by the angle, and down is as it was made
C16_Witness ==
    /\ rr_pc = "returned"
    /\ pressed_key_angle = HalfCot(9)
    /\ down = Vec(0, -1, 0)
    /\ LineAt(0).direction = <<NRat(-9, 41), NRat(-40, 41), NZero>>
    /\ origin = Vec(0, 0, 0)
    /\ LineAt(2).origin # origin


(***************************************************************************)
(* The returned matrix and the axis (SpecRotate).                          *)
(***************************************************************************)
\* the point of the axis at axis_point + k axis_vector
AxisPointAt(k) == VAdd(axis_point, VScale(NInt(k), axis_vector))

\* p is where the matrix takes it
FixedPoint(p) == TransformPoint(matrix, p) = p

\* the rotation about the origin the matrix is composed of
RTH_Rotation == RotationMatrix(target_axis_projection, target_point, destination)

\* C17: the returned matrix is the translation of target_axis_projection to
\* the origin, then the rotation, then the translation back: its linear
\* part is the rotation's and its translation is the projection less the
\* rotated projection.  The projection and the points of the axis (here
\* axis_point + k axis_vector, k = -1, 0, 1, 2) are fixed by it.
C17_AxisFixed ==
    rth_pc = "returned"
        => /\ matrix.lin = RTH_Rotation.lin
           /\ matrix.off = VSub(target_axis_projection,
                                MatVec(RTH_Rotation.lin, target_axis_projection))
           /\ FixedPoint(target_axis_projection)
           /\ \A k \in -1..2 : FixedPoint(AxisPointAt(k))

\* a rotation that is not the identity, about an axis off the origin
C17_Witness ==
    /\ rth_pc = "returned"
    /\ matrix.lin # Matrix3D_create.lin
    /\ matrix.off # Vec(0, 0, 0)
    /\ target_axis_projection # Vec(0, 0, 0)
    /\ target_axis_projection # axis_point
    /\ FixedPoint(target_axis_projection)
    /\ FixedPoint(AxisPointAt(2))


(***************************************************************************)
(* The two rotations of the leveling and their order (SpecLevel).          *)
(***************************************************************************)
\* the step that applies the first rotation to the group
FirstApplied == asm_pc = "first_transform" /\ asm_pc' = "place_back_left"

\* the step that applies the second rotation to the group
SecondApplied == asm_pc = "second_transform" /\ asm_pc' = "place_back_right"

\* C18: the step that applies the first rotation leaves the front support
\* point where it is, and the step that applies the second leaves the front
\* and the back left support points where they are.
C18_PlacedPointsStay ==
    /\ [][FirstApplied => named_points'.front = named_points.front]_vars
    /\ [][SecondApplied => /\ named_points'.front = named_points.front
                           /\ named_points'.back_left = named_points.back_left]_vars

\* both rotations applied, neither the identity, the first having moved the
\* back left support point: the front and back left points are on their
\* ball magnets and fixed by the second rotation
C18_Witness ==
    /\ asm_pc = "place_back_right"
    /\ first_rotation.lin # Matrix3D_create.lin
    /\ second_rotation.lin # Matrix3D_create.lin
    /\ named_points.front = ball_magnets.front
    /\ named_points.back_left = ball_magnets.back_left
    /\ named_points.back_left # SupportPoint(magnets.back_left)
    /\ TransformPoint(second_rotation, named_points.back_left) = named_points.back_left
    /\ TransformPoint(first_rotation, named_points.front) = named_points.front


\* the steps of the assembly in the order of the source
StepOrder ==
    <<"place_group", "add_named_points", "first_rotation", "first_transform",
      "place_back_left", "second_rotation", "second_transform", "place_back_right",
      "left_hand", "return">>

\* a step of the assembly goes to the next of the order, past the mirroring
\* where there is none, or out of the function with the error of the solver
InOrder ==
    asm_pc' # asm_pc
        => \/ \E i \in 1..(Len(StepOrder) - 1) :
                  asm_pc = StepOrder[i] /\ asm_pc' = StepOrder[i + 1]
           \/ asm_pc = "place_back_right" /\ asm_pc' = "return"
           \/ asm_pc \in {"first_transform", "second_transform"} /\ asm_pc' = "AssertionError"

\* where the first rotation takes the support point of a magnet of the group
AfterFirst(magnet) == TransformPoint(first_rotation, SupportPoint(magnet))

\* the second call of rotate_to_height_matrix is under way
SecondCalled == asm_pc = "second_transform"

\* C19: the steps are taken in the one order of the source, and the second
\* rotation is computed after the first is applied and the back left
\* support placed: its axis runs from the front ball magnet to the back
\* left ball magnet, which is on the rotated back left support point, and
\* its target is the rotated back right support point.  The back right
\* support is placed last, on the point both rotations give.
C19_RotationsInOrder ==
    /\ [][InOrder]_vars
    /\ [](SecondCalled
            => /\ first_rotation # None
               /\ ball_magnets.back_left = AfterFirst(magnets.back_left)
               /\ axis_point = ball_magnets.front
               /\ axis_vector = vectorTo(ball_magnets.front, AfterFirst(magnets.back_left))
               /\ target_point = AfterFirst(magnets.back_right))
    /\ [](asm_pc = "place_back_right"
            => named_points.back_right
                   = TransformPoint(second_rotation, AfterFirst(magnets.back_right)))

\* the second call, on points the first rotation has moved
C19_Witness ==
    /\ SecondCalled
    /\ rth_pc = "measure"
    /\ target_point = AfterFirst(magnets.back_right)
    /\ target_point # SupportPoint(magnets.back_right)
    /\ axis_vector # vectorTo(ball_magnets.front, SupportPoint(magnets.back_left))


(***************************************************************************)
(* The vertices of the ridge and its lines (SpecRidge).                    *)
(***************************************************************************)
\* p is on the line l, both in the plane z = 0
OnLine(p, l) == p[3] = NZero /\ CrossSign(vectorTo(l.origin, p), l.direction) = 0

\* the lines l and m meet in one point
Crossing(l, m) == CrossSign(l.direction, m.direction) # 0

\* C20: the function returns with exactly four points, points[k] being the
\* one point the line before lines[k] and lines[k] have in common, the line
\* before the first being the last: L3 and L0, L0 and L1, L1 and L2, L2 and
\* L3 in this order.
C20_VerticesOfConsecutiveLines ==
    rr_pc = "returned"
        => /\ Len(points) = 4
           /\ Len(lines) = 4
           /\ \A k \in 1..4 :
                  /\ Crossing(lines[((k + 2) % 4) + 1], lines[k])
                  /\ OnLine(points[k], lines[((k + 2) % 4) + 1])
                  /\ OnLine(points[k], lines[k])

\* at 12.68 degrees no point is on a third line, and the first is on the
\* last and the first line
C20_Witness ==
    /\ rr_pc = "returned"
    /\ pressed_key_angle = HalfCot(9)
    /\ Len(points) = 4
    /\ OnLine(points[1], lines[4])
    /\ OnLine(points[1], lines[1])
    /\ ~OnLine(points[1], lines[2])
    /\ ~OnLine(points[1], lines[3])
    /\ points[2] = origin


\* the third line is made
ThirdLineMade == lines # None /\ Len(lines) >= 3

\* down turned by -pressed_key_angle: (-sin, -cos, 0)
DownTurned == <<NNeg(pressed_key_angle.sin), NNeg(pressed_key_angle.cos), NZero>>

\* left turned by -pressed_key_angle: (-cos, sin, 0)
LeftTurned == <<NNeg(pressed_key_angle.cos), pressed_key_angle.sin, NZero>>

\* C21: at every pressed_key_angle L2 has the direction of L0, down turned
\* by -pressed_key_angle, and passes through the point 0.3 from the origin
\* along left turned by -pressed_key_angle; that point is straight across
\* from the origin, which is on L0, so the two lines are parallel and
\* 0.3 apart (0.09 squared).
C21_ThirdLineParallel ==
    ThirdLineMade
        => /\ lines[1].direction = DownTurned
           /\ lines[3].direction = lines[1].direction
           /\ lines[1].origin = Vec(0, 0, 0)
           /\ lines[3].origin = VScale(NRat(3, 10), LeftTurned)
           /\ Dot(vectorTo(lines[1].origin, lines[3].origin), lines[1].direction) = NZero
           /\ Dot(lines[3].origin, lines[3].origin) = NRat(9, 100)

C21_Witness ==
    /\ rr_pc = "fourth_line"
    /\ pressed_key_angle = HalfCot(9)
    /\ lines[3].origin = <<NRat(-12, 41), NRat(27, 410), NZero>>
    /\ lines[3].direction = <<NRat(-9, 41), NRat(-40, 41), NZero>>
    /\ lines[1].direction = lines[3].direction


\* the fourth line is made
FourthLineMade == lines # None /\ Len(lines) = 4

\* the point the fourth line is made through
Anchor == lines[4].origin

\* the point 0.3 back from the anchor against L0's direction
AnchorFoot == VSub(Anchor, VScale(NRat(3, 10), DownTurned))

\* C22: L3 is made through a point of L2 that is 0.3 along L0's direction
\* (a vector of length 1) from the point L1 and L2 have in common, and its
\* direction is down turned by 45 degrees, (sqrt(1/2), -sqrt(1/2), 0), at
\* every pressed_key_angle; where the function returns, the fourth point
\* is that anchor.
C22_FourthLineAnchor ==
    /\ FourthLineMade
           => /\ lines[4].direction = <<NSqrt(NRat(1, 2)), NNeg(NSqrt(NRat(1, 2))), NZero>>
              /\ OnLine(Anchor, lines[3])
              /\ OnLine(AnchorFoot, lines[2])
              /\ OnLine(AnchorFoot, lines[3])
              /\ Crossing(lines[2], lines[3])
              /\ Dot(DownTurned, DownTurned) = NOne
              /\ lines[1].direction = DownTurned
    /\ rr_pc = "returned" => points[4] = Anchor

C22_Witness ==
    /\ rr_pc = "returned"
    /\ pressed_key_angle = HalfCot(9)
    /\ points[4] = Anchor
    /\ points[3] = AnchorFoot
    /\ Anchor # AnchorFoot
    /\ OnLine(Anchor, lines[3])
    /\ ~OnLine(Anchor, lines[2])


(***************************************************************************)
(* The auxiliary circle of find_tangent_intersection_on_circle             *)
(* (SpecTangent).                                                          *)
(***************************************************************************)
\* the auxiliary circle is made and placed
AuxiliaryMade == intersecting_circle # None

\* its centre is midway between the point and the centre of the circle, and
\* its radius half their distance
AuxiliaryAtMidpoint ==
    /\ VScale(NInt(2), intersecting_circle.center) = VAdd(point, circle.center)
    /\ NMul(NInt(4), intersecting_circle.radius2) = FT_Distance2

\* C23: the auxiliary circle has its centre on the midpoint of the point
\* and the centre of the circle, its radius is half their distance, and it
\* lies in the plane of the circle.
C23_AuxiliaryCircleCoplanar ==
    AuxiliaryMade => (AuxiliaryAtMidpoint /\ Coplanar(circle, intersecting_circle))

\* a circle in the plane x = 0 and a point of that plane: the auxiliary
\* circle is centred and sized as said, and lies in a plane z = constant
C23_Witness ==
    /\ AuxiliaryMade
    /\ circle.normal = Vec(1, 0, 0)
    /\ FT_InPlane
    /\ AuxiliaryAtMidpoint
    /\ intersecting_circle.normal = Vec(0, 0, 1)
    /\ ~Coplanar(circle, intersecting_circle)

\* What holds of every circle: the centre and the radius; and of the
\* circles parallel to z = 0 with the point in their plane: the plane.
FT_AuxiliaryOfLevelCircles ==
    AuxiliaryMade
        => /\ AuxiliaryAtMidpoint
           /\ (FT_Level /\ FT_InPlane) => Coplanar(circle, intersecting_circle)


(***************************************************************************)
(* The order of placing and turning the screw (SpecScrew).                 *)
(***************************************************************************)
\* screw.place(...) of lines 1585-1588 has run
SSA_Placed == ssa_pc \in {"turn_screw", "place_nut", "returned"}

\* C24 as claimed: the screw is turned to its thread phase before it is
\* placed on the screw base, so that wherever it is placed it is turned.
C24_TurnedBeforePlaced == SSA_Placed => SSA_Turned

\* C24 as the code has it: the screw is placed on the screw base first, its
\* bottom screw_height above the bottom of the base, and turned after,
\* from the offset the placement has made; the turn, about z, leaves the
\* z the screw spans, and nothing moves or turns the screw after it.
C24_PlacedBeforeTurned ==
    /\ [](SSA_Turned
            => /\ SSA_Placed
               /\ screw.min_z = NAdd(screw_base.min_z, screw_height)
               /\ NMul(SSA_Applied, pitch) = NMul(NInt(-360), NSub(base_length, screw_height)))
    /\ [][ssa_pc = "turn_screw"
            => (screw'.min_z = screw.min_z /\ screw'.max_z = screw.max_z)]_vars
    /\ [][SSA_Turned => screw' = screw]_vars

\* the screw of 13 on the base of 8, 4 above its bottom: placed, then
\* turned by -360 * 4 / 1.4 degrees
C24_Witness ==
    /\ ssa_pc = "returned"
    /\ screw_height = NInt(4)
    /\ base_length = NInt(8)
    /\ screw.min_z = NInt(4)
    /\ screw.max_z = NInt(17)
    /\ SSA_Applied = NRat(-7200, 7)


(***************************************************************************)
(* The choice between the two intersections (SpecRotate).                  *)
(***************************************************************************)
\* the destination is chosen
DestinationChosen == rth_pc \in {"compose", "returned"}

\* the two intersections are at the same angle from target_point
AnglesTied == PathCos(intersections[1]) = PathCos(intersections[2])

\* C25: the destination is the first intersection only where its angle is
\* strictly the smaller (its cosine strictly the larger); where the first
\* angle is the larger, and where the two are equal, it is the second,
\* intersections[1], in whichever order the kernel gave the two.
C25_SecondOnTie ==
    DestinationChosen
        => /\ NLess(PathCos(intersections[2]), PathCos(intersections[1]))
                  => destination = intersections[1]
           /\ ~NLess(PathCos(intersections[2]), PathCos(intersections[1]))
                  => destination = intersections[2]
           /\ AnglesTied => destination = intersections[2]

\* two distinct intersections at the same angle, the second taken
C25_Witness ==
    /\ rth_pc = "returned"
    /\ AnglesTied
    /\ intersections[1] # intersections[2]
    /\ destination = intersections[2]
    /\ destination # target_point


(***************************************************************************)
(* The thread phase of offsets a whole number of pitches apart             *)
(* (SpecScrew).                                                            *)
(***************************************************************************)
\* the offsets compared are up to MaxTurns pitches apart, either way
MaxTurns == 3

\* the rotation line 1589 computes for a screw whose bottom is k pitches
\* lower, its offset k pitches more
RotationPitchesOn(k) ==
    ThreadRotation(screw_base.max_z, NSub(screw.min_z, NMul(NInt(k), pitch)), pitch)

\* C26: for the offset d of the screw and any offset d + k pitch, k a whole
\* number, the rotation computed for the second is the rotation applied
\* for the first less k * 360 degrees: the two differ by whole turns.
C26_PhasePeriodic ==
    SSA_Turned
        => \A k \in (0 - MaxTurns)..MaxTurns :
               RotationPitchesOn(k) = NSub(SSA_Applied, NInt(360 * k))

\* an offset of two pitches: two whole turns, the phase of the offset 0
C26_Witness ==
    /\ ssa_pc = "returned"
    /\ SSA_Offset = NRat(14, 5)
    /\ SSA_Applied = NInt(-720)
    /\ RotationPitchesOn(-2) = NZero
    /\ RotationPitchesOn(1) = NInt(-1080)

(***************************************************************************)
(* The mirroring of thumb_assembly (SpecLevel).                            *)
(***************************************************************************)
\* the mirroring is the step taken
MirrorApplied == asm_pc = "left_hand" /\ asm_pc' = "return"

\* a point and its image in the plane x = 0
ImageInX(p, q) == q[1] = NNeg(p[1]) /\ q[2] = p[2] /\ q[3] = p[3]

\* the three places of the group and of the supports
Places == {"front", "back_left", "back_right"}

\* every support point is on the ball magnet of its support
OnSupports(group, balls) == \A place \in Places : group[place] = balls[place]

\* C27: the mirroring is taken for the left hand only, after both rotations
\* are applied and the three supports placed; it takes every support point
\* of the group and the ball magnet of every support to its image in the
\* plane x = 0, heights kept, so that the points stay on their ball magnets;
\* no other step after the last placement moves a point, and none at all for
\* the right hand.
C27_MirroredLast ==
    /\ [](asm_pc = "left_hand"
            => /\ assembly = "thumb_assembly" /\ left_hand
               /\ first_rotation # None /\ second_rotation # None
               /\ OnSupports(named_points, ball_magnets))
    /\ [][MirrorApplied
            => /\ \A place \in Places :
                      /\ ImageInX(named_points[place], named_points'[place])
                      /\ ImageInX(ball_magnets[place], ball_magnets'[place])
               /\ OnSupports(named_points', ball_magnets')]_vars
    /\ [][(asm_pc = "place_back_right" /\ asm_pc' = "return")
            => /\ ~left_hand \/ assembly = "cluster_assembly"
               /\ named_points' = named_points
               /\ OnSupports(named_points', ball_magnets')]_vars
    /\ [][/\ asm_pc \in {"place_back_right", "left_hand", "return"}
           /\ ImageInX(named_points.back_right, named_points'.back_right)
           /\ named_points'.back_right # named_points.back_right
            => MirrorApplied]_vars

\* the left hand returned: the back right support point and its ball magnet
\* on the other side of the plane x = 0, at the height both rotations gave
C27_Witness ==
    /\ asm_pc = "return"
    /\ assembly = "thumb_assembly"
    /\ left_hand
    /\ NSign(named_points.back_right[1]) < 0
    /\ named_points.back_right
           = Mirrored(TransformPoint(second_rotation, AfterFirst(magnets.back_right)))
    /\ OnSupports(named_points, ball_magnets)
    /\ named_points.back_right[3] = NInt(2)

(***************************************************************************)
(* The back magnets of cluster_assembly, lines 1260-1286.  A component is  *)
(* the box it spans and the component it is a child of.  The two magnet    *)
(* cutouts of the cluster back are those of its two attachments, each 3.5  *)
(* wide and long and 1 high, anywhere along x.                             *)
(***************************************************************************)
\* Box(x, y, z, name=...): from the origin
Box(x, y, z, of) == [of |-> of, min |-> Vec(0, 0, 0), max |-> <<x, y, z>>]

\* component.mid()
Mid(component) == VScale(NRat(1, 2), VAdd(component.min, component.max))

\* the component moved by a vector
MovedBy(component0, by0) ==
    Value({[component EXCEPT !.min = VAdd(component.min, by), !.max = VAdd(component.max, by)]
           : component \in {component0}, by \in {by0}})

\* magnet.place(~magnet == ~cutout, ~magnet == ~cutout, +magnet == +cutout)
PlacedInCutout(magnet0, cutout0) ==
    Value({MovedBy(magnet, <<NSub(Mid(cutout)[1], Mid(magnet)[1]),
                           NSub(Mid(cutout)[2], Mid(magnet)[2]),
                           NSub(cutout.max[3], magnet.max[3])>>)
           : magnet \in {magnet0}, cutout \in {cutout0}})

\* Box((1/8) * 25.4, (1/8) * 25.4, (1/16) * 25.4, name=...)
MagnetBox(of) == Box(NRat(127, 40), NRat(127, 40), NRat(127, 80), of)

\* (the first cutout taken for the left one whatever its place)
FirstIsLeftAlways(cutouts) == TRUE

\* back_magnet_cutouts[0].mid().x < back_magnet_cutouts[1].mid().x
FirstIsLeft(cutouts) == NLess(Mid(cutouts[1])[1], Mid(cutouts[2])[1])

\* lines 1271-1276
BMC_Assign ==
    /\ bmc_pc = "assign"
    /\ IF FirstIsLeft(back_magnet_cutouts)
       THEN /\ back_left_magnet_cutout' = back_magnet_cutouts[1]
            /\ back_right_magnet_cutout' = back_magnet_cutouts[2]
       ELSE /\ back_right_magnet_cutout' = back_magnet_cutouts[1]
            /\ back_left_magnet_cutout' = back_magnet_cutouts[2]
    /\ bmc_pc' = "place_back_left_magnet"
    /\ UNCHANGED <<back_magnet_cutouts, back_left_magnet, back_right_magnet>>

\* lines 1278-1281
BMC_PlaceBackLeft ==
    /\ bmc_pc = "place_back_left_magnet"
    /\ back_left_magnet' = PlacedInCutout(back_left_magnet, back_left_magnet_cutout)
    /\ bmc_pc' = "place_back_right_magnet"
    /\ UNCHANGED <<back_magnet_cutouts, back_left_magnet_cutout, back_right_magnet_cutout,
                   back_right_magnet>>

\* lines 1283-1286
BMC_PlaceBackRight ==
    /\ bmc_pc = "place_back_right_magnet"
    /\ back_right_magnet' = PlacedInCutout(back_right_magnet, back_right_magnet_cutout)
    /\ bmc_pc' = "placed"
    /\ UNCHANGED <<back_magnet_cutouts, back_left_magnet_cutout, back_right_magnet_cutout,
                   back_left_magnet>>

\* what the placing of the back magnets leaves alone
notBmc == <<rthVars, asmVars, ftVars, rrVars, ssaVars, rd_pc, earlier, mcVars, pcbVars>>

back_magnets ==
    /\ BMC_Assign \/ BMC_PlaceBackLeft \/ BMC_PlaceBackRight
    /\ UNCHANGED notBmc

MaxCutoutX == 2

CutoutXs == (0 - MaxCutoutX)..MaxCutoutX

CutoutYs == {0, 1}

\* the magnet cutout of one of the two attachments of the cluster back
CutoutAt(of, x, y) ==
    MovedBy(Box(NRat(7, 2), NRat(7, 2), NInt(1), of), Vec(x, y, 0))

\* the cutouts in one or the other order
InOneOrder(one, other, swapped) == IF swapped THEN <<other, one>> ELSE <<one, other>>

BackMagnetsStart ==
    /\ bmc_pc = "assign"
    /\ \E x1 \in CutoutXs, x2 \in CutoutXs, y \in CutoutYs, swapped \in BOOLEAN :
           back_magnet_cutouts
               = InOneOrder(CutoutAt("attachment", x1, y), CutoutAt("other_attachment", x2, y),
                            swapped)
    /\ back_left_magnet_cutout = None
    /\ back_right_magnet_cutout = None
    /\ back_left_magnet = MagnetBox("back_left_magnet")
    /\ back_right_magnet = MagnetBox("back_right_magnet")

InitBackMagnets == BackMagnetsStart /\ AllIdleBut("back_magnets")

NextBackMagnets == back_magnets

SpecBackMagnets == InitBackMagnets /\ [][NextBackMagnets]_vars

(***************************************************************************)
(* Properties of the back magnets (SpecBackMagnets).                       *)
(***************************************************************************)
\* the two cutouts have their names
CutoutsAssigned == bmc_pc \in {"place_back_left_magnet", "place_back_right_magnet", "placed"}

\* the two cutouts are level in x
CutoutsTied == Mid(back_magnet_cutouts[1])[1] = Mid(back_magnet_cutouts[2])[1]

\* C28: the two names are given to the two cutouts, one each; the mid x of
\* the cutout named left is never more than that of the one named right,
\* in whichever order the cutouts are found; where the two are level in x
\* the first found is the right one and the second the left one.
C28_LeftNotRightOfRight ==
    CutoutsAssigned
        => /\ {back_left_magnet_cutout, back_right_magnet_cutout}
                  = {back_magnet_cutouts[1], back_magnet_cutouts[2]}
           /\ ~NLess(Mid(back_right_magnet_cutout)[1], Mid(back_left_magnet_cutout)[1])
           /\ CutoutsTied
                  => /\ back_right_magnet_cutout = back_magnet_cutouts[1]
                     /\ back_left_magnet_cutout = back_magnet_cutouts[2]

\* the cutouts level in x, the one of the other attachment found first and
\* named right, and both magnets placed in their cutouts
C28_Witness ==
    /\ bmc_pc = "placed"
    /\ CutoutsTied
    /\ back_magnet_cutouts[1].of = "other_attachment"
    /\ back_right_magnet_cutout.of = "other_attachment"
    /\ back_left_magnet_cutout.of = "attachment"
    /\ Mid(back_left_magnet)[1] = Mid(back_left_magnet_cutout)[1]
    /\ back_right_magnet.max[3] = NInt(1)

(***************************************************************************)
(* vertical_large_thin_magnet_cutout(name, depth, taper), lines 83-93.     *)
(***************************************************************************)
\* min(x, y)
NMin(x0, y0) == Value({IF NLess(y, x) THEN y ELSE x : x \in {x0}, y \in {y0}})

NMax(x0, y0) == Value({IF NLess(x, y) THEN y ELSE x : x \in {x0}, y \in {y0}})

\* component.size()
Size(component) == VSub(component.max, component.min)

\* tapered_box(bottom_x, bottom_y, top_x, top_y, height, name): the loft from
\* a rectangle at the origin to one centred over it, height above
tapered_box(bottom_x0, bottom_y0, top_x0, top_y0, high0, of0) ==
    Value({[of |-> of,
            min |-> <<NMin(NZero, NDiv(NSub(bottom_x, top_x), NInt(2))),
                      NMin(NZero, NDiv(NSub(bottom_y, top_y), NInt(2))),
                      NMin(NZero, high)>>,
            max |-> <<NMax(bottom_x, NDiv(NAdd(bottom_x, top_x), NInt(2))),
                      NMax(bottom_y, NDiv(NAdd(bottom_y, top_y), NInt(2))),
                      NMax(NZero, high)>>]
           : bottom_x \in {bottom_x0}, bottom_y \in {bottom_y0}, top_x \in {top_x0},
             top_y \in {top_y0}, high \in {high0}, of \in {of0}})

\* (the taper .7 high whatever the depth)
FullTaperHeight(depth_given) == NRat(7, 10)

\* min(.7, depth)
TaperHeight(depth_given) == NMin(NRat(7, 10), depth_given)

\* part.place(~part == ~onto, ~part == ~onto, -part == +onto)
PlacedOnTop(part0, onto0) ==
    Value({MovedBy(part, <<NSub(Mid(onto)[1], Mid(part)[1]),
                           NSub(Mid(onto)[2], Mid(part)[2]),
                           NSub(onto.max[3], part.min[3])>>)
           : part \in {part0}, onto \in {onto0}})

\* Union(one, other, name=name): the box the two span
Union(one0, other0, of0) ==
    Value({[of |-> of,
            min |-> <<NMin(one.min[1], other.min[1]), NMin(one.min[2], other.min[2]),
                      NMin(one.min[3], other.min[3])>>,
            max |-> <<NMax(one.max[1], other.max[1]), NMax(one.max[2], other.max[2]),
                      NMax(one.max[3], other.max[3])>>]
           : one \in {one0}, other \in {other0}, of \in {of0}})

\* line 84
MC_Taper ==
    /\ mc_pc = "upper_taper"
    /\ upper_taper' = tapered_box(NRat(67, 20), NRat(67, 20),
                                  NAdd(NRat(67, 20), taper), NAdd(NRat(67, 20), taper),
                                  TaperHeight(depth), "magnet_cutout_taper")
    /\ mc_pc' = IF NLess(NRat(7, 10), depth) THEN "base" ELSE "union_taper"
    /\ UNCHANGED <<depth, taper, base, magnet_cutout>>

\* line 87
MC_Base ==
    /\ mc_pc = "base"
    /\ base' = Box(NRat(67, 20), NRat(67, 20), NSub(depth, Size(upper_taper)[3]),
                   "magnet_cutout_base")
    /\ mc_pc' = "place"
    /\ UNCHANGED <<depth, taper, upper_taper, magnet_cutout>>

\* lines 88-90
MC_Place ==
    /\ mc_pc = "place"
    /\ upper_taper' = PlacedOnTop(upper_taper, base)
    /\ mc_pc' = "union"
    /\ UNCHANGED <<depth, taper, base, magnet_cutout>>

\* line 91
MC_Union ==
    /\ mc_pc = "union"
    /\ magnet_cutout' = Union(base, upper_taper, "magnet_cutout")
    /\ mc_pc' = "returned"
    /\ UNCHANGED <<depth, taper, upper_taper, base>>

\* line 93
MC_UnionTaper ==
    /\ mc_pc = "union_taper"
    /\ magnet_cutout' = Union(upper_taper, upper_taper, "magnet_cutout")
    /\ mc_pc' = "returned"
    /\ UNCHANGED <<depth, taper, upper_taper, base>>

\* what vertical_large_thin_magnet_cutout leaves alone
notMc == <<rthVars, asmVars, ftVars, rrVars, ssaVars, rd_pc, earlier, bmcVars, pcbVars>>

vertical_large_thin_magnet_cutout ==
    /\ MC_Taper \/ MC_Base \/ MC_Place \/ MC_Union \/ MC_UnionTaper
    /\ UNCHANGED notMc

\* the depths are the tenths up to 2.5: depth is 1 at line 546, the
\* rectangular_depth of magnetic_attachment at line 597 and 1.8 by default
MaxDepthTenths == 25

Depths == {NRat(tenths, 10) : tenths \in 1..MaxDepthTenths}

\* taper is .15 wherever the function is called
Tapers == {NRat(3, 20), NRat(1, 4)}

MagnetCutoutStart ==
    /\ mc_pc = "upper_taper"
    /\ depth \in Depths
    /\ taper \in Tapers
    /\ upper_taper = None
    /\ base = None
    /\ magnet_cutout = None

InitMagnetCutout == MagnetCutoutStart /\ AllIdleBut("vertical_large_thin_magnet_cutout")

NextMagnetCutout == vertical_large_thin_magnet_cutout

SpecMagnetCutout == InitMagnetCutout /\ [][NextMagnetCutout]_vars

(***************************************************************************)
(* Properties of vertical_large_thin_magnet_cutout (SpecMagnetCutout).     *)
(***************************************************************************)
\* the depth is more than .7
Deep == NLess(NRat(7, 10), depth)

\* C29: the cutout returned is depth high.  Of a depth of .7 or less it is
\* the taper alone, depth high; of a greater depth it is a straight base
\* depth - .7 high, from the bottom of the cutout, and the taper, .7 high,
\* from the top of the base to the top of the cutout.
C29_HeightIsDepth ==
    mc_pc = "returned"
        => /\ Size(magnet_cutout)[3] = depth
           /\ ~Deep
                  => /\ base = None
                     /\ Size(upper_taper)[3] = depth
                     /\ magnet_cutout.min = upper_taper.min
                     /\ magnet_cutout.max = upper_taper.max
           /\ Deep
                  => /\ Size(base)[3] = NSub(depth, NRat(7, 10))
                     /\ Size(upper_taper)[3] = NRat(7, 10)
                     /\ base.min[3] = magnet_cutout.min[3]
                     /\ upper_taper.min[3] = base.max[3]
                     /\ upper_taper.max[3] = magnet_cutout.max[3]

\* a cutout of depth 1.8: the base 1.1 high and the taper from 1.1 to 1.8
C29_Witness ==
    /\ mc_pc = "returned"
    /\ depth = NRat(9, 5)
    /\ base.max[3] = NRat(11, 10)
    /\ upper_taper.min[3] = NRat(11, 10)
    /\ magnet_cutout.max[3] = NRat(9, 5)
    /\ Mid(upper_taper)[1] = Mid(base)[1]

(***************************************************************************)
(* central_pcb_sketch, lines 2216-2243, and key_breakout_pcb_sketch, lines *)
(* 2317-2343: the same loop over the edges of the bottom face of the PCB.  *)
(* An edge is its geometry: a Line3D, or a Circle3D with its radius and    *)
(* centre.                                                                 *)
(***************************************************************************)
Line3D == [type |-> "Line3D"]

Circle3D(radius_of, center_of) ==
    [type |-> "Circle3D", radius |-> radius_of, center |-> center_of]

\* isinstance(edge.geometry, adsk.core.Circle3D)
IsCircle3D(geometry) == geometry.type = "Circle3D"

\* (the small pad up to the radius .4 and at it)
RectSizeUpTo(radius_of) ==
    IF ~NLess(NRat(2, 5), radius_of) THEN <<NRat(5, 4), NRat(5, 4)>> ELSE <<NInt(2), NInt(2)>>

\* rect_size, lines 2225-2228
RectSize(radius_of) ==
    IF NLess(radius_of, NRat(2, 5)) THEN <<NRat(5, 4), NRat(5, 4)>> ELSE <<NInt(2), NInt(2)>>

\* Rect(x, y): from the origin, in the plane z = 0
Rect(rect_size) == [of |-> "Rect", min |-> Vec(0, 0, 0), max |-> <<rect_size[1], rect_size[2], NZero>>]

\* rect.place(~rect == center, ~rect == center, ~rect == center)
PlacedAbout(rect0, center0) ==
    Value({MovedBy(rect, VSub(center, Mid(rect))) : rect \in {rect0}, center \in {center0}})

\* component.scale(sx, sy, sz), about the origin
ScaledBy(component0, by0) ==
    Value({[component EXCEPT !.min = VScale(by, component.min), !.max = VScale(by, component.max)]
           : component \in {component0}, by \in {by0}})

\* lines 2222-2223: an edge that is no circle is passed over
PCB_Continue ==
    /\ pcb_pc = "for_edge"
    /\ edge <= Len(edges)
    /\ ~IsCircle3D(edges[edge])
    /\ edge' = edge + 1
    /\ UNCHANGED <<pcb_pc, sketch_func, edges, rects, split_face>>

\* lines 2225-2234: the pad of a circular edge
PCB_Rect ==
    /\ pcb_pc = "for_edge"
    /\ edge <= Len(edges)
    /\ IsCircle3D(edges[edge])
    /\ rects' = Append(rects, PlacedAbout(Rect(RectSize(edges[edge].radius)),
                                          edges[edge].center))
    /\ edge' = edge + 1
    /\ UNCHANGED <<pcb_pc, sketch_func, edges, split_face>>

\* lines 2235-2236: the bottom face split by the pads, a tenth the size
PCB_SplitFace ==
    /\ pcb_pc = "for_edge"
    /\ edge > Len(edges)
    /\ split_face' = [of |-> IF sketch_func = "central_pcb_sketch"
                              THEN "central_pcb_sketch" ELSE "SplitFace",
                      tool |-> [k \in 1..Len(rects) |-> ScaledBy(rects[k], NRat(1, 10))]]
    /\ pcb_pc' = "returned"
    /\ UNCHANGED <<sketch_func, edges, edge, rects>>

\* what the two sketches leave alone
notPcb == <<rthVars, asmVars, ftVars, rrVars, ssaVars, rd_pc, earlier, bmcVars, mcVars>>

pcb_sketch ==
    /\ PCB_Continue \/ PCB_Rect \/ PCB_SplitFace
    /\ UNCHANGED notPcb

MaxEdges == 3

\* where the holes of a PCB are
HoleCentres == {<<1, 1, 0>>, <<3, 1, 0>>}

\* the holes of central_pcb are screw holes of radius 3.1/2 (lines 2201 and
\* 2207); those of key_breakout_pcb are of radius .35 and .40 (lines 2294
\* and 2304)
HoleRadii(of) ==
    IF of = "central_pcb_sketch" THEN {NRat(31, 20)} ELSE {NRat(7, 20), NRat(2, 5)}

\* the edges a bottom face is made of
EdgesOf(of) == {Line3D} \cup {Circle3D(r, IVec(c)) : r \in HoleRadii(of), c \in HoleCentres}

\* the edges of a face in the order the kernel gives them, a hole among them
EdgeLists(of) ==
    {list \in UNION {[1..n -> EdgesOf(of)] : n \in 1..MaxEdges} :
        \E k \in DOMAIN list : IsCircle3D(list[k])}

SketchStart ==
    /\ pcb_pc = "for_edge"
    /\ sketch_func \in {"central_pcb_sketch", "key_breakout_pcb_sketch"}
    /\ edges \in EdgeLists(sketch_func)
    /\ edge = 1
    /\ rects = <<>>
    /\ split_face = None

InitSketch == SketchStart /\ AllIdleBut("pcb_sketch")

NextSketch == pcb_sketch

SpecSketch == InitSketch /\ [][NextSketch]_vars

(***************************************************************************)
(* Properties of the two sketches (SpecSketch).                            *)
(***************************************************************************)
\* the circular edges among the edges the loop has passed
CirclesPassed == SelectSeq(SubSeq(edges, 1, edge - 1), IsCircle3D)

\* a pad is a square of the side given about the centre given
IsPad(rect, side, center) ==
    /\ Size(rect) = <<side, side, NZero>>
    /\ Mid(rect) = center

====
